---- MODULE Spec2Model ----
(***************************************************************************)
(* A model of watobs.datafarm (DatafarmRepository): the session state, the *)
(* ensure_auth retry decorator, the cached reference-table accessors, the  *)
(* facade operations and the insert payload builder.                       *)
(*                                                                         *)
(* Every operation is one action.  The remote service is the environment: *)
(* the action draws, with \E, the answer the login endpoint gives during  *)
(* the call and the answers the other endpoints give to the successive    *)
(* requests of the call (a script of MaxScript answers, followed by one   *)
(* answer repeated for every later request).                              *)
(*                                                                         *)
(* Python's Optional values are modelled as sequences of length <= 1:     *)
(* None is << >> and a present value x is << x >>.                        *)
(***************************************************************************)
EXTENDS Integers, Sequences, FiniteSets, TLC

VARIABLES
    access_token,   \* self.access_token : None or <<token>>
    headers,        \* self.headers      : None or <<[Access_Token |-> token]>>
    _connected,     \* self._connected   : BOOLEAN
    cache,          \* the instance __dict__ entries written by cached_property
    pc,             \* the caller's position: "out", "body" (inside a with block), "exc"
    pending,        \* the exception raised by the body of the with block, if any
    last,           \* the call the caller made last and has not looked at yet
    history,        \* the calls the caller has looked at (specification SpecSession)
    ins,            \* the table handed to the payload builder (specification SpecInsert)
    json_input,     \* the document handed to the decoder (specification SpecDecode)
    dt_in           \* the value handed to the datetime normalizer (specification SpecNormalize)

vars == <<access_token, headers, _connected, cache, pc, pending, last, history, ins, json_input, dt_in>>

None == << >>
Some(x) == << x >>

\* The element of a one-element set.  The({e(r) : r \in {call}}) evaluates
\* call once and names its value r in e: the way the results of calls are
\* named below (x = f(...) in the source).
The(S) == CHOOSE x \in S : TRUE

\* Number of scripted answers of the data endpoints before the repeated one.
MaxScript == 1

-----------------------------------------------------------------------------
(* Exceptions and HTTP responses                                           *)

NoExc == [type |-> "None", status |-> 0, arg |-> ""]
HTTPError(status) == [type |-> "HTTPError", status |-> status, arg |-> ""]
KeyError(arg) == [type |-> "KeyError", status |-> 0, arg |-> arg]
ValueError(arg) == [type |-> "ValueError", status |-> 0, arg |-> arg]
FileNotFoundError(arg) == [type |-> "FileNotFoundError", status |-> 0, arg |-> arg]
IndexError(arg) == [type |-> "IndexError", status |-> 0, arg |-> arg]
SchemaError(arg) == [type |-> "SchemaError", status |-> 0, arg |-> arg]

Tokens == {"t1", "t2"}
Versions == {"v1", "v2", "v3"}

\* A response: its status code and what it carries (the Access-Token header of
\* a login response, the version of the table document of a data response).
Response(status, body) == [status |-> status, body |-> body]

LoginResponses ==
    {Response(200, Some(t)) : t \in Tokens}
        \cup {Response(200, None), Response(401, None), Response(500, None)}

DataResponses ==
    {Response(200, Some(v)) : v \in Versions}
        \cup {Response(200, None), Response(401, None), Response(500, None)}

Scripts == UNION {[1..n -> DataResponses] : n \in {MaxScript}}

\* The service during one call.
Service(login, script, tail) == [login |-> login, script |-> script, tail |-> tail]

-----------------------------------------------------------------------------
(* The interpreter state threaded through one call, and call results       *)

\* A trace entry: what happened (ev), in which operation or at which endpoint
\* (op), at which nesting depth of decorated calls (d), with which exception or
\* response (x); Log adds the session at that moment (self._connected,
\* self.access_token, self.headers).
Ev(ev, op, d, x) == [ev |-> ev, op |-> op, d |-> d, x |-> x]

Log(st, e) ==
    [st EXCEPT !.trace = Append(@, [ev |-> e.ev, op |-> e.op, d |-> e.d, x |-> e.x,
                                    c |-> st._connected, tok |-> st.access_token,
                                    hdr |-> st.headers])]

Return(st, ret) == [st |-> st, exc |-> NoExc, ret |-> ret]
Raise(st, exc) == [st |-> st, exc |-> exc, ret |-> None]

Raised(r) == r.exc.type # "None"

\* response.raise_for_status()
raise_for_status(resp) ==
    IF resp.status >= 400 THEN HTTPError(resp.status) ELSE NoExc

\* One HTTP request to a data endpoint, sent with headers=self.headers.
Request(st, endpoint) ==
    LET resp == IF st.script = << >> THEN st.tail ELSE Head(st.script)
        st1 == [st EXCEPT !.script = IF @ = << >> THEN @ ELSE Tail(@)]
    IN  [st |-> Log(st1, Ev("request", endpoint, 0,
                            [type |-> "Response", status |-> resp.status, arg |-> "",
                             body |-> resp.body])),
         resp |-> resp]

-----------------------------------------------------------------------------
(* Tables: cells, DataFrames, table documents, to_pandas_df                *)

StrCell(s) == [t |-> "str", s |-> s, n |-> 0]
IntCell(n) == [t |-> "int", s |-> "", n |-> n]
FloatCell(n) == [t |-> "float", s |-> "", n |-> n]
NaNCell == [t |-> "nan", s |-> "", n |-> 0]
NoneCell == [t |-> "none", s |-> "", n |-> 0]
TsCell(n) == [t |-> "ts", s |-> "", n |-> n]

Range(seq) == {seq[i] : i \in DOMAIN seq}

SeqMax(S) == IF S = {} THEN 0 ELSE CHOOSE m \in S : \A k \in S : k <= m

\* Variant of Without: df.set_index(..., drop=False) keeps the key among the columns.
Without_keep(seq, x) == seq

\* seq without the entries equal to x, order kept.
RECURSIVE Without(_, _)
Without(seq, x) ==
    IF seq = << >> THEN << >>
    ELSE IF Head(seq) = x THEN Without(Tail(seq), x)
    ELSE << Head(seq) >> \o Without(Tail(seq), x)

\* A pandas DataFrame: the ordinary columns in order, the name of the index
\* (None for the default RangeIndex) and the rows, each a function from the
\* names of the columns (the index included) to cells.
DataFrame(columns, index, rows) == [columns |-> columns, index |-> index, rows |-> rows]

Field(name, type) == [name |-> name, type |-> type]

\* A Table Document: {"schema": {"fields": [...], "primaryKey": [...]}, "data": [...]},
\* either key possibly absent.
TableDocument(schema, data) == [schema |-> schema, data |-> data]
Schema(fields, primaryKey) == [fields |-> fields, primaryKey |-> primaryKey]

\* The type pandas.io.json.build_table_schema reports for a column read by
\* pd.read_json(orient="values").
InferredType(cells) ==
    IF \A c \in cells : c.t = "int" THEN "integer"
    ELSE IF \A c \in cells : c.t \in {"int", "float", "nan", "none"} THEN "number"
    ELSE IF \A c \in cells : c.t = "ts" THEN "datetime"
    ELSE "string"

\* The coercion of one cell of a column whose declared type differs from the
\* inferred one (lines 40-48).
Coerce(declared, cell) ==
    IF declared = "datetime"
    THEN IF cell.t \in {"int", "float"} THEN TsCell(cell.n) ELSE cell
    ELSE IF declared = "number"
    THEN IF cell.t = "int" THEN FloatCell(cell.n)
         ELSE IF cell.t = "none" THEN NaNCell ELSE cell
    ELSE cell

\* Variant of to_pandas_df: a missing "data" key read as an empty list
\* (data.get("data", [])) instead of the early return of lines 29-30.
to_pandas_df_data_default(doc) ==
    IF doc.schema = None THEN [exc |-> ValueError("No schema in data"), ret |-> None]
    ELSE
    LET schema == doc.schema[1]
        fields == schema.fields
        columns == [i \in DOMAIN fields |-> fields[i].name]
        data == IF doc.data = None THEN << >> ELSE doc.data[1]
        width == SeqMax({Len(data[i]) : i \in DOMAIN data})
        raw(i, j) == IF j <= Len(data[i]) THEN data[i][j] ELSE NaNCell
        column(j) == {raw(i, j) : i \in DOMAIN data}
        cell(i, j) ==
            IF fields[j].type # InferredType(column(j))
            THEN Coerce(fields[j].type, raw(i, j))
            ELSE raw(i, j)
        rows == [i \in DOMAIN data |->
                    [c \in Range(columns) |->
                        cell(i, CHOOSE j \in DOMAIN columns : columns[j] = c)]]
    IN  IF width # Len(columns)
        THEN [exc |-> ValueError("Length mismatch"), ret |-> None]
        ELSE IF schema.primaryKey = << >>
        THEN [exc |-> IndexError("list index out of range"), ret |-> None]
        ELSE IF schema.primaryKey[1] \notin Range(columns)
        THEN [exc |-> KeyError(schema.primaryKey[1]), ret |-> None]
        ELSE [exc |-> NoExc,
              ret |-> Some(DataFrame(Without(columns, schema.primaryKey[1]),
                                     Some(schema.primaryKey[1]), rows))]

\* Variant of to_pandas_df: the schema looked for only once data is known to
\* be present (the test of lines 24-25 after the one of lines 29-30).
to_pandas_df_schema_late(doc) ==
    IF doc.data = None
    THEN [exc |-> NoExc,
          ret |-> Some(DataFrame(IF doc.schema = None THEN << >>
                                 ELSE [i \in DOMAIN doc.schema[1].fields |->
                                          doc.schema[1].fields[i].name],
                                 None, << >>))]
    ELSE IF doc.schema = None
    THEN [exc |-> KeyError("schema"), ret |-> None]
    ELSE
    LET schema == doc.schema[1]
        fields == schema.fields
        columns == [i \in DOMAIN fields |-> fields[i].name]
        data == doc.data[1]
        width == SeqMax({Len(data[i]) : i \in DOMAIN data})
        raw(i, j) == IF j <= Len(data[i]) THEN data[i][j] ELSE NaNCell
        column(j) == {raw(i, j) : i \in DOMAIN data}
        cell(i, j) ==
            IF fields[j].type # InferredType(column(j))
            THEN Coerce(fields[j].type, raw(i, j))
            ELSE raw(i, j)
        rows == [i \in DOMAIN data |->
                    [c \in Range(columns) |->
                        cell(i, CHOOSE j \in DOMAIN columns : columns[j] = c)]]
    IN  IF width # Len(columns)
        THEN [exc |-> ValueError("Length mismatch"), ret |-> None]
        ELSE IF schema.primaryKey = << >>
        THEN [exc |-> IndexError("list index out of range"), ret |-> None]
        ELSE IF schema.primaryKey[1] \notin Range(columns)
        THEN [exc |-> KeyError(schema.primaryKey[1]), ret |-> None]
        ELSE [exc |-> NoExc,
              ret |-> Some(DataFrame(Without(columns, schema.primaryKey[1]),
                                     Some(schema.primaryKey[1]), rows))]

to_pandas_df(doc) ==
    IF doc.schema = None THEN [exc |-> ValueError("No schema in data"), ret |-> None]
    ELSE
    LET schema == doc.schema[1]
        fields == schema.fields
        columns == [i \in DOMAIN fields |-> fields[i].name]
    IN  IF doc.data = None
        THEN [exc |-> NoExc, ret |-> Some(DataFrame(columns, None, << >>))]
        ELSE
        LET data == doc.data[1]
            width == SeqMax({Len(data[i]) : i \in DOMAIN data})
            \* read_json pads short rows with NaN
            raw(i, j) == IF j <= Len(data[i]) THEN data[i][j] ELSE NaNCell
            column(j) == {raw(i, j) : i \in DOMAIN data}
            cell(i, j) ==
                IF fields[j].type # InferredType(column(j))
                THEN Coerce(fields[j].type, raw(i, j))
                ELSE raw(i, j)
            rows == [i \in DOMAIN data |->
                        [c \in Range(columns) |->
                            cell(i, CHOOSE j \in DOMAIN columns : columns[j] = c)]]
        IN  IF width # Len(columns)
            THEN [exc |-> ValueError("Length mismatch"), ret |-> None]
            ELSE IF schema.primaryKey = << >>
            THEN [exc |-> IndexError("list index out of range"), ret |-> None]
            ELSE IF schema.primaryKey[1] \notin Range(columns)
            THEN [exc |-> KeyError(schema.primaryKey[1]), ret |-> None]
            ELSE [exc |-> NoExc,
                  ret |-> Some(DataFrame(Without(columns, schema.primaryKey[1]),
                                         Some(schema.primaryKey[1]), rows))]

\* What the service's endpoints answer with: the JSON document of a response
\* that carries version v of a table (None: a document without a schema block).
QualitiesDocument(v) ==
    TableDocument(
        Some(Schema(<<Field("ID", "string"), Field("IDName", "string"),
                      Field("Level", "integer")>>, <<"ID">>)),
        Some(IF v = "v1"
             THEN << <<StrCell("q0"), StrCell("ok"), IntCell(0)>>, <<StrCell("q1"), StrCell("critical"), IntCell(1)>> >>
             ELSE IF v = "v2"
             THEN << <<StrCell("q0"), StrCell("ok"), IntCell(0)>>, <<StrCell("q1"), StrCell("critical"), IntCell(2)>> >>
             \* two qualities of one level
             ELSE << <<StrCell("q0"), StrCell("ok"), IntCell(0)>>, <<StrCell("q1"), StrCell("critical"), IntCell(0)>> >>))

ListDocument(v) ==
    TableDocument(
        Some(Schema(<<Field("ID", "string"), Field("IDName", "string")>>, <<"ID">>)),
        Some(<< <<StrCell("id"), StrCell(v)>> >>))

Json(endpoint, body) ==
    IF body = None THEN TableDocument(None, None)
    ELSE IF endpoint = "/List/Qualities" THEN QualitiesDocument(body[1])
    ELSE ListDocument(body[1])

-----------------------------------------------------------------------------
(* Datetime normalizer                                                     *)

\* A date-time value: a string ("dtstr") or a datetime object ("dtobj"), whether
\* pandas can parse it (valid), its wall-clock reading to the second (wall), its
\* sub-second part in microseconds (micro) and its UTC offset as written
\* ("" when naive, "Z", or "+02:00").
DateTime(kind, valid, wall, micro, offset) ==
    [t |-> kind, valid |-> valid, wall |-> wall, micro |-> micro, offset |-> offset]

\* Timestamp.isoformat() prints the UTC offset of an aware value; "Z" parses to UTC.
IsoOffset(offset) == IF offset = "Z" THEN "+00:00" ELSE offset

\* pd.to_datetime(dt).isoformat(timespec="milliseconds") + "Z": a string made
\* of the wall-clock reading, the milliseconds, the printed offset and "Z".
_parse_datetime(dt) ==
    IF dt.t \notin {"dtstr", "dtobj"} \/ ~dt.valid
    THEN [exc |-> ValueError("Unknown datetime string format"), ret |-> None]
    ELSE [exc |-> NoExc,
          ret |-> Some([t |-> "str", wall |-> dt.wall, ms |-> dt.micro \div 1000,
                        offset |-> IsoOffset(dt.offset), z |-> "Z"])]

-----------------------------------------------------------------------------
(* Session: connect and close                                              *)

\* A connect that marks the session connected before it looks for the token.
connect_flag_first(st) ==
    LET resp == st.login
        st1 == Log(Log(st, Ev("connect", "connect", 0, NoExc)),
                   Ev("request", "/Login/Login", 0,
                      [type |-> "Response", status |-> resp.status, arg |-> "",
                       body |-> resp.body]))
        done(r) == [r EXCEPT !.st = Log(@, Ev("connect_exit", "connect", 0, r.exc))]
    IN  IF raise_for_status(resp) # NoExc
        THEN done(Raise(st1, raise_for_status(resp)))
        ELSE IF resp.body = None
        THEN done(Raise([st1 EXCEPT !._connected = TRUE],
                        KeyError("Could not get access token")))
        ELSE done(Return([st1 EXCEPT !.access_token = resp.body,
                                     !.headers = Some([Access_Token |-> resp.body[1]]),
                                     !._connected = TRUE], None))

\* A connect that stores what response.headers.get("Access-Token") gives
\* before it checks that a token came.
connect_store_first(st) ==
    LET resp == st.login
        st1 == Log(Log(st, Ev("connect", "connect", 0, NoExc)),
                   Ev("request", "/Login/Login", 0,
                      [type |-> "Response", status |-> resp.status, arg |-> "",
                       body |-> resp.body]))
        done(r) == [r EXCEPT !.st = Log(@, Ev("connect_exit", "connect", 0, r.exc))]
    IN  IF raise_for_status(resp) # NoExc
        THEN done(Raise(st1, raise_for_status(resp)))
        ELSE IF resp.body = None
        THEN done(Raise([st1 EXCEPT !.access_token = None],
                        KeyError("Could not get access token")))
        ELSE done(Return([st1 EXCEPT !.access_token = resp.body,
                                     !.headers = Some([Access_Token |-> resp.body[1]]),
                                     !._connected = TRUE], None))

connect(st) ==
    LET resp == st.login
        st1 == Log(Log(st, Ev("connect", "connect", 0, NoExc)),
                   Ev("request", "/Login/Login", 0,
                      [type |-> "Response", status |-> resp.status, arg |-> "",
                       body |-> resp.body]))
        done(r) == [r EXCEPT !.st = Log(@, Ev("connect_exit", "connect", 0, r.exc))]
    IN  IF raise_for_status(resp) # NoExc
        THEN done(Raise(st1, raise_for_status(resp)))
        ELSE IF resp.body = None
        THEN done(Raise(st1, KeyError("Could not get access token")))
        ELSE done(Return([st1 EXCEPT !.access_token = resp.body,
                                     !.headers = Some([Access_Token |-> resp.body[1]]),
                                     !._connected = TRUE], None))

\* A close that clears the session whatever the logoff request answers.
close_clear_first(st) ==
    LET done(r) == [r EXCEPT !.st = Log(@, Ev("close_exit", "close", 0, r.exc))]
        clear(s) == [s EXCEPT !.access_token = None, !.headers = None, !._connected = FALSE]
    IN  The({IF raise_for_status(q.resp) # NoExc
             THEN done(Raise(clear(q.st), raise_for_status(q.resp)))
             ELSE done(Return(clear(q.st), None)) :
                q \in {Request(Log(st, Ev("close", "close", 0, NoExc)), "/Login/Logoff")}})

\* A close that forgets the token and keeps the headers.
close_keep_headers(st) ==
    LET done(r) == [r EXCEPT !.st = Log(@, Ev("close_exit", "close", 0, r.exc))]
    IN  The({IF raise_for_status(q.resp) # NoExc
             THEN done(Raise(q.st, raise_for_status(q.resp)))
             ELSE done(Return([q.st EXCEPT !.access_token = None,
                                           !._connected = FALSE], None)) :
                q \in {Request(Log(st, Ev("close", "close", 0, NoExc)), "/Login/Logoff")}})

\* A close that forgets to lower the connected flag.
close_keep_flag(st) ==
    LET done(r) == [r EXCEPT !.st = Log(@, Ev("close_exit", "close", 0, r.exc))]
    IN  The({IF raise_for_status(q.resp) # NoExc
             THEN done(Raise(q.st, raise_for_status(q.resp)))
             ELSE done(Return([q.st EXCEPT !.access_token = None,
                                           !.headers = None], None)) :
                q \in {Request(Log(st, Ev("close", "close", 0, NoExc)), "/Login/Logoff")}})

close(st) ==
    LET done(r) == [r EXCEPT !.st = Log(@, Ev("close_exit", "close", 0, r.exc))]
    IN  The({IF raise_for_status(q.resp) # NoExc
             THEN done(Raise(q.st, raise_for_status(q.resp)))
             ELSE done(Return([q.st EXCEPT !.access_token = None,
                                           !.headers = None,
                                           !._connected = FALSE], None)) :
                q \in {Request(Log(st, Ev("close", "close", 0, NoExc)), "/Login/Logoff")}})

\* __enter__ returns self; __exit__ returns None, which does not suppress the
\* exception the block is left with.
__enter__(st) == connect(st)

\* An __exit__ that leaves the session as it is.
exit_without_close(st, exc) == Return(st, None)

__exit__(st, exc) == close(st)

-----------------------------------------------------------------------------
(* Facade                                                                  *)

\* The reference tables fetched through _get_pandas_df, with their endpoints.
RefTables ==
    {"time_series_metadata", "time_series_source_descriptions", "units",
     "time_series_types", "time_series_status", "qualities", "parameters",
     "medias", "locations"}

Endpoint(table) ==
    CASE table = "time_series_metadata" -> "/MetaData/Entity"
      [] table = "time_series_source_descriptions" -> "/List/TimeSeriesSourceDescriptions"
      [] table = "units" -> "/List/Units"
      [] table = "time_series_types" -> "/List/TimeSeriesTypes"
      [] table = "time_series_status" -> "/List/TimeSeriesStatus"
      [] table = "qualities" -> "/List/Qualities"
      [] table = "parameters" -> "/List/Parameters"
      [] table = "medias" -> "/List/Medias"
      [] table = "locations" -> "/List/Locations"

CachedProperties == RefTables \cup {"quality_level_to_name", "quality_name_to_level"}

\* One request and the decoding of its answer: the common shape of
\* _get_pandas_df, list_time_series, get_data and get_statistics.
_get_pandas_df(st, endpoint) ==
    The({IF raise_for_status(q.resp) # NoExc
         THEN Raise(q.st, raise_for_status(q.resp))
         ELSE The({[st |-> q.st, exc |-> t.exc, ret |-> t.ret] :
                      t \in {to_pandas_df(Json(endpoint, q.resp.body))}}) :
            q \in {Request(st, endpoint)}})

\* A request whose response is returned as it is.
Post(st, endpoint) ==
    The({IF raise_for_status(q.resp) # NoExc
         THEN Raise(q.st, raise_for_status(q.resp))
         ELSE Return(q.st, Some(q.resp)) :
            q \in {Request(st, endpoint)}})

\* A dictionary that gives every key the value of the first row.
DictOfRows_first(df, kcol, vcol) ==
    [k \in {df.rows[i][kcol] : i \in DOMAIN df.rows} |-> df.rows[1][vcol]]

\* {df[kcol].iloc[i]: df[vcol].iloc[i] for i in range(len(df))}: a later row
\* overrides an earlier one with the same key.
DictOfRows(df, kcol, vcol) ==
    LET rows == df.rows
        keys == {rows[i][kcol] : i \in DOMAIN rows}
    IN  [k \in keys |-> rows[SeqMax({i \in DOMAIN rows : rows[i][kcol] = k})][vcol]]

RECURSIVE Func(_, _, _, _)
RECURSIVE ensure_auth(_, _, _, _)
RECURSIVE cached_property(_, _, _)

\* A wrapper that reconnects and retries a second time when the retry is
\* answered 401 as well.
ensure_auth_twice(op, arg, st, d) ==
    LET call(s) ==
            The({[r EXCEPT !.st = Log(@, Ev("func_exit", op, d, r.exc))] :
                    r \in {Func(op, arg, Log(s, Ev("func", op, d, NoExc)), d)}})
        again(r2) ==
            IF r2.exc.type = "HTTPError" /\ r2.exc.status = 401
            THEN The({IF Raised(c) THEN c ELSE call(c.st) :
                         c \in {connect(Log(r2.st, Ev("reconnect", op, d, r2.exc)))}})
            ELSE r2
        reconnect(r1) ==
            The({IF Raised(c) THEN c ELSE The({again(r2) : r2 \in {call(c.st)}}) :
                    c \in {connect(Log(r1.st, Ev("reconnect", op, d, r1.exc)))}})
        handle(r1) ==
            IF r1.exc.type # "HTTPError" THEN r1
            ELSE IF r1.exc.status = 401 /\ r1.st._connected THEN reconnect(r1)
            ELSE r1
        try == The({handle(r1) : r1 \in {call(Log(st, Ev("wrapper", op, d, NoExc)))}})
    IN  The({[r EXCEPT !.st = Log(@, Ev("wrapper_exit", op, d, r.exc))] : r \in {try}})

\* A wrapper that reconnects on 401 whether or not the session was connected.
ensure_auth_unconditional(op, arg, st, d) ==
    LET call(s) ==
            The({[r EXCEPT !.st = Log(@, Ev("func_exit", op, d, r.exc))] :
                    r \in {Func(op, arg, Log(s, Ev("func", op, d, NoExc)), d)}})
        reconnect(r1) ==
            The({IF Raised(c) THEN c ELSE call(c.st) :
                    c \in {connect(Log(r1.st, Ev("reconnect", op, d, r1.exc)))}})
        handle(r1) ==
            IF r1.exc.type # "HTTPError" THEN r1
            ELSE IF r1.exc.status = 401 THEN reconnect(r1)
            ELSE r1
        try == The({handle(r1) : r1 \in {call(Log(st, Ev("wrapper", op, d, NoExc)))}})
    IN  The({[r EXCEPT !.st = Log(@, Ev("wrapper_exit", op, d, r.exc))] : r \in {try}})

\* A wrapper that reconnects on every HTTP error of a connected session.
ensure_auth_any_status(op, arg, st, d) ==
    LET call(s) ==
            The({[r EXCEPT !.st = Log(@, Ev("func_exit", op, d, r.exc))] :
                    r \in {Func(op, arg, Log(s, Ev("func", op, d, NoExc)), d)}})
        reconnect(r1) ==
            The({IF Raised(c) THEN c ELSE call(c.st) :
                    c \in {connect(Log(r1.st, Ev("reconnect", op, d, r1.exc)))}})
        handle(r1) ==
            IF r1.exc.type # "HTTPError" THEN r1
            ELSE IF r1.st._connected THEN reconnect(r1)
            ELSE r1
        try == The({handle(r1) : r1 \in {call(Log(st, Ev("wrapper", op, d, NoExc)))}})
    IN  The({[r EXCEPT !.st = Log(@, Ev("wrapper_exit", op, d, r.exc))] : r \in {try}})

\* A wrapper that reconnects a connected session and retries on every error
\* (except Exception instead of except requests.HTTPError).
ensure_auth_any_error(op, arg, st, d) ==
    LET call(s) ==
            The({[r EXCEPT !.st = Log(@, Ev("func_exit", op, d, r.exc))] :
                    r \in {Func(op, arg, Log(s, Ev("func", op, d, NoExc)), d)}})
        reconnect(r1) ==
            The({IF Raised(c) THEN c ELSE call(c.st) :
                    c \in {connect(Log(r1.st, Ev("reconnect", op, d, r1.exc)))}})
        handle(r1) ==
            IF ~Raised(r1) THEN r1
            ELSE IF (r1.exc.type # "HTTPError" \/ r1.exc.status = 401) /\ r1.st._connected
            THEN reconnect(r1)
            ELSE r1
        try == The({handle(r1) : r1 \in {call(Log(st, Ev("wrapper", op, d, NoExc)))}})
    IN  The({[r EXCEPT !.st = Log(@, Ev("wrapper_exit", op, d, r.exc))] : r \in {try}})

\* @ensure_auth: the wrapper around the function named op, at nesting depth d.
ensure_auth(op, arg, st, d) ==
    LET call(s) ==
            The({[r EXCEPT !.st = Log(@, Ev("func_exit", op, d, r.exc))] :
                    r \in {Func(op, arg, Log(s, Ev("func", op, d, NoExc)), d)}})
        reconnect(r1) ==
            The({IF Raised(c) THEN c ELSE call(c.st) :
                    c \in {connect(Log(r1.st, Ev("reconnect", op, d, r1.exc)))}})
        handle(r1) ==
            IF r1.exc.type # "HTTPError" THEN r1
            ELSE IF r1.exc.status = 401 /\ r1.st._connected THEN reconnect(r1)
            ELSE r1
        try == The({handle(r1) : r1 \in {call(Log(st, Ev("wrapper", op, d, NoExc)))}})
    IN  The({[r EXCEPT !.st = Log(@, Ev("wrapper_exit", op, d, r.exc))] : r \in {try}})

\* An accessor that fetches the table at every access.
cached_property_refetch(name, st, d) ==
    The({IF Raised(r) THEN r ELSE [r EXCEPT !.st.cache[name] = r.ret] :
            r \in {ensure_auth(name, None, st, d)}})

\* A cached_property that stores an empty value when the wrapped call raises.
cached_property_store_failed(name, st, d) ==
    IF st.cache[name] # None
    THEN Return(Log(st, Ev("cached", name, d, NoExc)), st.cache[name])
    ELSE The({IF Raised(r)
              THEN [r EXCEPT !.st.cache[name] =
                       IF name \in RefTables
                       THEN Some(DataFrame(<< >>, None, << >>))
                       ELSE Some(<< >>)]
              ELSE [r EXCEPT !.st.cache[name] = r.ret] :
                 r \in {ensure_auth(name, None, st, d)}})

\* @cached_property over @ensure_auth: the value stored in the instance, or
\* the wrapped function's result, stored when the call returns normally.
cached_property(name, st, d) ==
    IF st.cache[name] # None
    THEN Return(Log(st, Ev("cached", name, d, NoExc)), st.cache[name])
    ELSE The({IF Raised(r) THEN r ELSE [r EXCEPT !.st.cache[name] = r.ret] :
                 r \in {ensure_auth(name, None, st, d)}})

\* quality_level_to_name / quality_name_to_level (the function under the decorators)
QualityDict(st, d, kcol, vcol) ==
    The({IF Raised(r) THEN r
         ELSE IF r.ret[1].rows = << >> THEN Return(r.st, Some(<< >>))
         ELSE IF kcol \notin Range(r.ret[1].columns) THEN Raise(r.st, KeyError(kcol))
         ELSE IF vcol \notin Range(r.ret[1].columns) THEN Raise(r.st, KeyError(vcol))
         ELSE Return(r.st, Some(DictOfRows(r.ret[1], kcol, vcol))) :
            r \in {cached_property("qualities", st, d + 1)}})

get_data(st, arg) ==
    LET start == _parse_datetime(arg.start)
        end == _parse_datetime(arg.end)
    IN  IF start.exc # NoExc THEN Raise(st, start.exc)
        ELSE IF end.exc # NoExc THEN Raise(st, end.exc)
        ELSE _get_pandas_df(st, "/TimeSeries/ExtractData")

_delete_data_timestamps(st, timestamps) ==
    IF \E i \in DOMAIN timestamps : _parse_datetime(timestamps[i]).exc # NoExc
    THEN Raise(st, ValueError("Unknown datetime string format"))
    ELSE Post(st, "/TimeSeries/DeleteData")

_delete_data_range(st, start, end) ==
    IF _parse_datetime(start).exc # NoExc \/ _parse_datetime(end).exc # NoExc
    THEN Raise(st, ValueError("Unknown datetime string format"))
    ELSE Post(st, "/TimeSeries/DeleteDataRange")

\* A delete_data that takes the timestamps when a range is given as well.
delete_data_lenient(st, arg) ==
    IF arg.timestamps = None /\ (arg.start = None \/ arg.end = None)
    THEN Raise(st, ValueError("Either timestamps or start and end must be provided."))
    ELSE IF arg.timestamps # None
    THEN _delete_data_timestamps(st, arg.timestamps[1])
    ELSE _delete_data_range(st, arg.start[1], arg.end[1])

delete_data(st, arg) ==
    IF arg.timestamps = None /\ (arg.start = None \/ arg.end = None)
    THEN Raise(st, ValueError("Either timestamps or start and end must be provided."))
    ELSE IF arg.timestamps # None /\ (arg.start # None \/ arg.end # None)
    THEN Raise(st, ValueError("Either timestamps or start and end must be provided."))
    ELSE IF arg.timestamps # None
    THEN _delete_data_timestamps(st, arg.timestamps[1])
    ELSE _delete_data_range(st, arg.start[1], arg.end[1])

\* [self.quality_name_to_level[q] for q in items]: every item reads the
\* cached property; an item that is no key of the mapping raises KeyError.
RECURSIVE LevelsOf(_, _, _)
LevelsOf(items, st, d) ==
    IF items = << >> THEN Return(st, Some(<< >>))
    ELSE The({IF Raised(r) THEN r
              ELSE IF Head(items) \notin DOMAIN r.ret[1]
              THEN Raise(r.st, KeyError("quality"))
              ELSE The({IF Raised(rest) THEN rest
                        ELSE Return(rest.st,
                                    Some(<< r.ret[1][Head(items)] >> \o rest.ret[1])) :
                           rest \in {LevelsOf(Tail(items), r.st, d)}}) :
                 r \in {cached_property("quality_name_to_level", st, d + 1)}})

\* The except KeyError clauses of the quality conversions: the message reads
\* self.quality_name_to_level again before the new exception is raised.
QualityKeyError(st, d, exc) ==
    The({IF Raised(h) THEN h ELSE Raise(h.st, exc) :
            h \in {cached_property("quality_name_to_level", st, d + 1)}})

\* update_data_quality: not decorated with @ensure_auth.
update_data_quality(st, arg) ==
    LET timestamps == arg.timestamps
        quality == IF arg.is_list THEN arg.quality
                   ELSE [i \in 1..Len(timestamps) |-> arg.quality[1]]
        send(s, new_qualities) ==
            IF \E i \in DOMAIN timestamps : _parse_datetime(timestamps[i]).exc # NoExc
            THEN Raise(s, ValueError("Unknown datetime string format"))
            ELSE Post(Log(s, Ev("body", "/TimeSeries/UpdateDataQuality", 0,
                                [type |-> "Body", status |-> 0, arg |-> "",
                                 body |-> [TimeSeriesName |-> arg.time_series_id,
                                           TimeStamp |-> [i \in DOMAIN timestamps |->
                                                _parse_datetime(timestamps[i]).ret[1]],
                                           QualityLevel |-> new_qualities]])),
                      "/TimeSeries/UpdateDataQuality")
    IN  IF Len(timestamps) # Len(quality)
        THEN Raise(st, ValueError("The number of timestamps and qualities must be the same."))
        ELSE IF quality = << >> THEN Raise(st, IndexError("list index out of range"))
        ELSE IF quality[1].t = "str"
        THEN The({IF levels.exc.type = "KeyError"
                  THEN QualityKeyError(levels.st, 0, ValueError("Quality must be one of"))
                  ELSE IF Raised(levels) THEN levels
                  ELSE send(levels.st, levels.ret[1]) :
                     levels \in {LevelsOf(quality, st, 0)}})
        ELSE send(st, quality)

-----------------------------------------------------------------------------
(* Insert payload builder                                                  *)

QualityAliases == {"Quality", "QualityLevel", "QualityTxt"}

\* INSERT_SCHEMA.columns.keys()
columns_schema == {"TimeStamp", "QualityLevel", "Confidence", "Data", "Duration", "FilePath"}

Column(df, c) == [i \in DOMAIN df.rows |-> df.rows[i][c]]

\* The dtype pandas gives a column built from these cells.
Dtype(cells) ==
    IF \A c \in cells : c.t = "int" THEN "int64"
    ELSE IF (\A c \in cells : c.t \in {"int", "float", "nan", "none"})
            /\ (\E c \in cells : c.t # "none") THEN "float64"
    ELSE IF \A c \in cells : c.t = "dtobj" THEN "datetime64[ns]"
    ELSE "object"

\* df[c] = values; a new column is appended to the columns
SetColumn(df, c, values) ==
    [df EXCEPT !.columns = IF c \in Range(@) THEN @ ELSE Append(@, c),
               !.rows = [i \in DOMAIN @ |->
                            [k \in (DOMAIN @[i]) \cup {c} |->
                                IF k = c THEN values[i] ELSE @[i][k]]]]

\* del df[c]
DelColumn(df, c) ==
    [df EXCEPT !.columns = Without(@, c),
               !.rows = [i \in DOMAIN @ |-> [k \in (DOMAIN @[i]) \ {c} |-> @[i][k]]]]

\* df.rename(columns={old: new})
RenameColumn(df, old, new) ==
    IF old = new THEN df
    ELSE [df EXCEPT !.columns = [j \in DOMAIN @ |-> IF @[j] = old THEN new ELSE @[j]],
                    !.rows = [i \in DOMAIN @ |->
                                [k \in ((DOMAIN @[i]) \ {old}) \cup {new} |->
                                    IF k = new THEN @[i][old] ELSE @[i][k]]]]

\* The files of the caller's machine: the bytes of a path, None when it does not exist.
FileBytes(path) ==
    IF path = "tests/data/test_upload.txt" THEN Some("Hello world")
    ELSE IF path = "tests/data/empty.bin" THEN Some("")
    ELSE None

\* os.path.basename
basename(path) ==
    CASE path = "tests/data/test_upload.txt" -> "test_upload.txt"
      [] path = "tests/data/empty.bin" -> "empty.bin"
      [] path = "tests/data/missing.txt" -> "missing.txt"
      [] OTHER -> path

\* base64.b64encode / base64.b64decode on the files' contents
b64encode(bytes) ==
    CASE bytes = "Hello world" -> "SGVsbG8gd29ybGQ="
      [] bytes = "" -> ""

b64decode(text) ==
    CASE text = "SGVsbG8gd29ybGQ=" -> "Hello world"
      [] text = "" -> ""

\* A formatter that writes a missing value as the number 0.
_format_float_zero(x) ==
    IF x.t \in {"none", "nan"} THEN [N |-> 0, V |-> FloatCell(0)]
    ELSE [N |-> 0, V |-> FloatCell(x.n)]

_format_float(x) ==
    IF x.t \in {"none", "nan"} THEN [N |-> 1, V |-> FloatCell(0)]
    ELSE [N |-> 0, V |-> FloatCell(x.n)]

\* Series.astype(int) / Series.astype(float), cell by cell; ok is FALSE when
\* the cast raises.
AsInt(cell) ==
    IF cell.t \in {"int", "float"} THEN [ok |-> TRUE, v |-> IntCell(cell.n)]
    ELSE [ok |-> FALSE, v |-> cell]

AsFloat(cell) ==
    IF cell.t \in {"int", "float"} THEN [ok |-> TRUE, v |-> FloatCell(cell.n)]
    ELSE IF cell.t \in {"none", "nan"} THEN [ok |-> TRUE, v |-> NaNCell]
    ELSE [ok |-> FALSE, v |-> cell]

\* INSERT_SCHEMA.validate(df): the columns the schema lacks are not looked at
\* (the schema is not strict); the result is the name of an offending column.
SchemaViolations(df) ==
    LET has(c) == c \in Range(df.columns)
        dtype(c) == Dtype(Range(Column(df, c)))
        strs(c) == \A x \in Range(Column(df, c)) : x.t = "str"
    IN  {c \in {"TimeStamp", "QualityLevel"} : ~has(c)}
        \cup {c \in {"TimeStamp", "FilePath"} : has(c) /\ ~strs(c)}
        \cup {c \in {"QualityLevel", "Confidence", "Duration"} : has(c) /\ dtype(c) # "int64"}
        \cup {c \in {"Data"} : has(c) /\ dtype(c) # "float64"}

\* Lines 275-299: the file columns and the {N, V} pairs.
AttachAndFormat(st, df) ==
    LET paths == Column(df, "FilePath")
        named == SetColumn(df, "ObjectFileName",
                           [i \in DOMAIN paths |-> StrCell(basename(paths[i].s))])
        encoded == SetColumn(named, "ObjectBase64",
                             [i \in DOMAIN paths |->
                                 [t |-> "bytes", s |-> b64encode(FileBytes(paths[i].s)[1]), n |-> 0]])
        fmt(f, c) == IF c \in Range(f.columns)
                     THEN SetColumn(f, c, [i \in DOMAIN f.rows |-> _format_float(f.rows[i][c])])
                     ELSE f
        format(f) ==
            The({The({The({fmt(f3, "Duration") : f3 \in {fmt(f2, "Confidence")}}) :
                        f2 \in {fmt(f1, "Data")}}) : f1 \in {f}})
    IN  IF "FilePath" \notin Range(df.columns) THEN Return(st, Some(format(df)))
        ELSE IF \E i \in DOMAIN paths : FileBytes(paths[i].s) = None
        THEN Raise(st, FileNotFoundError(
                paths[CHOOSE i \in DOMAIN paths :
                        /\ FileBytes(paths[i].s) = None
                        /\ \A j \in 1..(i - 1) : FileBytes(paths[j].s) # None].s))
        ELSE Return(st, Some(format(DelColumn(encoded, "FilePath"))))

\* Lines 265-273: the timestamps and the schema.
StampAndValidate(st, df) ==
    LET stamps == [i \in DOMAIN df.rows |-> _parse_datetime(df.rows[i]["TimeStamp"])]
    IN  IF "TimeStamp" \notin Range(df.columns)
        THEN Raise(st, KeyError("No 'TimeStamp' column in data"))
        ELSE IF \E i \in DOMAIN stamps : stamps[i].exc # NoExc
        THEN Raise(st, ValueError("Invalid 'TimeStamp' column in data"))
        ELSE The({IF SchemaViolations(stamped) # {}
                  THEN Raise(st, SchemaError(CHOOSE c \in SchemaViolations(stamped) : TRUE))
                  ELSE AttachAndFormat(st, stamped) :
                     stamped \in {SetColumn(df, "TimeStamp",
                                            [i \in DOMAIN stamps |-> stamps[i].ret[1]])}})

\* Lines 257-263: the Data cast and the warning about the columns the schema lacks.
CastAndWarn(st, df, d) ==
    LET data == [i \in DOMAIN df.rows |-> AsFloat(df.rows[i]["Data"])]
        unknown == Range(df.columns) \ columns_schema
        warned == IF unknown = {} THEN st
                  ELSE Log(st, Ev("warning", "not allowed to insert", d,
                                  [type |-> "Columns", status |-> 0, arg |-> "",
                                   columns |-> unknown]))
    IN  IF "Data" \notin Range(df.columns) THEN Raise(st, KeyError("Data"))
        ELSE IF \E i \in DOMAIN data : ~data[i].ok
        THEN Raise(st, ValueError("could not convert to float"))
        ELSE The({StampAndValidate(warned, casted) :
                     casted \in {SetColumn(df, "Data", [i \in DOMAIN data |-> data[i].v])}})

_prepare_insert_data(st, data, d) ==
    LET aliases == {j \in DOMAIN data.columns : data.columns[j] \in QualityAliases}
        quality_column == data.columns[CHOOSE j \in aliases : \A k \in aliases : j <= k]
        cells == Column(data, quality_column)
        ints == [i \in DOMAIN cells |-> AsInt(cells[i])]
        converted(s, values) ==
            The({CastAndWarn(s, df, d) :
                    df \in {RenameColumn(SetColumn(data, quality_column, values),
                                         quality_column, "QualityLevel")}})
    IN  IF data.rows = << >> \/ data.columns = << >>
        THEN Raise(st, ValueError("No data to insert"))
        ELSE IF aliases = {} THEN Raise(st, ValueError("No quality column in data"))
        ELSE IF Dtype(Range(cells)) = "object"
        THEN The({IF levels.exc.type = "KeyError"
                  THEN QualityKeyError(levels.st, d,
                                       KeyError("Invalid quality string values"))
                  ELSE IF Raised(levels) THEN levels
                  ELSE converted(levels.st, levels.ret[1]) :
                     levels \in {LevelsOf(cells, st, d)}})
        ELSE IF \E i \in DOMAIN ints : ~ints[i].ok
        THEN Raise(st, ValueError("cannot convert to integer"))
        ELSE converted(st, [i \in DOMAIN ints |-> ints[i].v])

_get_insert_data_body(st, arg, d) ==
    The({IF Raised(r) THEN r
         ELSE Return(r.st,
                     Some([k \in {"BulkInsert", "TimeSeriesName"} \cup Range(r.ret[1].columns) |->
                             IF k \in Range(r.ret[1].columns)
                             THEN [type |-> "list", v |-> Column(r.ret[1], k)]
                             ELSE IF k = "BulkInsert"
                             THEN [type |-> "bool", v |-> arg.bulk_insert]
                             ELSE [type |-> "str", v |-> arg.time_series_id]])) :
            r \in {_prepare_insert_data(st, arg.data, d)}})

insert_data(st, arg, d) ==
    The({IF Raised(b) THEN b
         ELSE Post(Log(b.st, Ev("body", "/TimeSeries/InsertData", d,
                                [type |-> "Body", status |-> 0, arg |-> "",
                                 body |-> b.ret[1]])),
                   "/TimeSeries/InsertData") :
            b \in {_get_insert_data_body(st, arg, d)}})

\* The functions under the decorators, by name.
Func(op, arg, st, d) ==
    CASE op = "list_time_series" -> _get_pandas_df(st, "/List/TimeSeries/")
      [] op = "get_data" -> get_data(st, arg)
      [] op = "insert_data" -> insert_data(st, arg, d)
      [] op = "delete_data" -> delete_data(st, arg)
      [] op = "get_statistics" -> _get_pandas_df(st, "/TimeSeries/Statistics")
      [] op \in RefTables -> _get_pandas_df(st, Endpoint(op))
      [] op = "quality_level_to_name" -> QualityDict(st, d, "Level", "IDName")
      [] op = "quality_name_to_level" -> QualityDict(st, d, "IDName", "Level")

-----------------------------------------------------------------------------
(* The caller: one action per operation of the repository                  *)

NoCall == [op |-> "none"]

\* The interpreter state at the start of a call, for a given service.
Begin(service) ==
    [access_token |-> access_token, headers |-> headers, _connected |-> _connected,
     cache |-> cache, login |-> service.login, script |-> service.script,
     tail |-> service.tail, trace |-> << >>]

Session == [access_token |-> access_token, headers |-> headers,
            _connected |-> _connected, cache |-> cache]

Services ==
    {Service(l, s, t) : l \in LoginResponses, s \in Scripts, t \in DataResponses}

\* The services that differ in the login answer only, and in the first data answer only.
LoginServices == {Service(l, << >>, Response(200, None)) : l \in LoginResponses}
OneAnswerServices == {Service(Response(200, None), << >>, t) : t \in DataResponses}

\* The caller may start a call when it has looked at the result of the last
\* one and no exception is on its way out of a with block.
Idle == last = NoCall /\ pc \in {"out", "body"}

\* The effect of a call that ended with result r.
Finish(op, arg, r) ==
    /\ access_token' = r.st.access_token
    /\ headers' = r.st.headers
    /\ _connected' = r.st._connected
    /\ cache' = r.st.cache
    /\ last' = [op |-> op, arg |-> arg, pre |-> Session, trace |-> r.st.trace,
                exc |-> r.exc, ret |-> r.ret]
    /\ pc' = IF pc = "body" /\ Raised(r) THEN "exc" ELSE pc
    /\ pending' = IF pc = "body" /\ Raised(r) THEN r.exc ELSE pending
    /\ UNCHANGED <<history, ins, json_input, dt_in>>

\* Sample arguments
D1 == DateTime("dtstr", TRUE, "2023-05-15T14:30:00", 0, "")
D2 == DateTime("dtobj", TRUE, "2023-05-16T00:00:00", 0, "")
BadDate == DateTime("dtstr", FALSE, "2023-50-50", 0, "")

GetDataArgs == {[start |-> D1, end |-> D2]}

\* Every combination of timestamps, start and end given or not, and a value
\* that is no date-time in either form.
DeleteDataArgs ==
    {[time_series_id |-> "ts", timestamps |-> t, start |-> s, end |-> e] :
        t \in {None, Some(<<D1>>)}, s \in {None, Some(D1)}, e \in {None, Some(D2)}}
    \cup {[time_series_id |-> "ts", timestamps |-> Some(<<BadDate>>), start |-> None, end |-> None],
          [time_series_id |-> "ts", timestamps |-> None, start |-> Some(D1), end |-> Some(BadDate)]}

\* A scalar quality (a level, a name, a name the service does not know) for
\* one or two timestamps; a list of qualities for two timestamps: of the same
\* length or shorter, of levels, of names, or of both.
UpdateDataQualityArgs ==
    {[time_series_id |-> "ts", timestamps |-> ts, is_list |-> FALSE, quality |-> <<q>>] :
        ts \in {<<D1>>, <<D1, D2>>},
        q \in {IntCell(1), StrCell("ok"), StrCell("bogus")}}
    \cup
    {[time_series_id |-> "ts", timestamps |-> <<D1, D2>>, is_list |-> TRUE, quality |-> qs] :
        qs \in {<<IntCell(1), IntCell(1)>>, <<StrCell("ok"), StrCell("critical")>>,
                <<StrCell("ok"), StrCell("bogus")>>, <<IntCell(1), StrCell("bogus")>>,
                <<IntCell(1)>>, <<StrCell("ok")>>}}

Row(stamp, qname, q, x) ==
    [c \in {"TimeStamp", qname, "Data"} |->
        IF c = "TimeStamp" THEN stamp ELSE IF c = qname THEN q ELSE x]

\* The tables handed to insert_data: one row of a timestamp, a value and a
\* quality (a level, a name, a name the service does not know); and the
\* tables the preparation rejects: without rows, without a quality column,
\* without a TimeStamp column, with a timestamp that cannot be parsed, with a
\* Confidence the schema refuses, with a file that does not exist.
InsertDataTables ==
    {DataFrame(<<"TimeStamp", "Data", "Quality">>, None,
               << Row(D1, "Quality", q, FloatCell(1)) >>) :
        q \in {IntCell(0), StrCell("ok"), StrCell("bogus")}}
    \cup
    {DataFrame(<<"TimeStamp", "Data", "Quality">>, None, << >>),
     DataFrame(<<"TimeStamp", "Data">>, None,
               << [c \in {"TimeStamp", "Data"} |->
                     IF c = "TimeStamp" THEN D1 ELSE FloatCell(1)] >>),
     DataFrame(<<"Data", "Quality">>, None,
               << [c \in {"Data", "Quality"} |->
                     IF c = "Data" THEN FloatCell(1) ELSE IntCell(0)] >>),
     DataFrame(<<"TimeStamp", "Data", "Quality">>, None,
               << Row(BadDate, "Quality", IntCell(0), FloatCell(1)) >>),
     DataFrame(<<"TimeStamp", "Data", "Quality", "Confidence">>, None,
               << [c \in {"TimeStamp", "Data", "Quality", "Confidence"} |->
                     CASE c = "TimeStamp" -> D1
                       [] c = "Data" -> FloatCell(1)
                       [] c = "Quality" -> IntCell(0)
                       [] OTHER -> NaNCell] >>),
     DataFrame(<<"TimeStamp", "Data", "Quality", "FilePath">>, None,
               << [c \in {"TimeStamp", "Data", "Quality", "FilePath"} |->
                     CASE c = "TimeStamp" -> D1
                       [] c = "Data" -> FloatCell(1)
                       [] c = "Quality" -> IntCell(0)
                       [] OTHER -> StrCell("tests/data/missing.txt")] >>)}

InsertDataArgs ==
    {[time_series_id |-> "ts", bulk_insert |-> FALSE, data |-> table] :
        table \in InsertDataTables}

\* A reference-table accessor sends at most two requests to its endpoint:
\* a first answer and the answer to every later request cover all it can meet.
TwoAnswerServices ==
    {Service(l, <<a>>, t) : l \in LoginResponses, a \in DataResponses, t \in DataResponses}

\* Number of reference tables the caller may have cached at once (SpecTables).
MaxCached == 1

\* Number of calls the caller remembers (SpecSession).
MaxHistory == 3

Connect ==
    /\ Idle
    /\ \E service \in LoginServices :
          \E r \in {connect(Begin(service))} : Finish("connect", None, r)

Close ==
    /\ Idle
    /\ \E service \in OneAnswerServices :
          \E r \in {close(Begin(service))} : Finish("close", None, r)

ListTimeSeries ==
    /\ Idle
    /\ \E service \in Services :
          \E r \in {ensure_auth("list_time_series", None, Begin(service), 1)} :
              Finish("list_time_series", None, r)

GetData ==
    /\ Idle
    /\ \E service \in Services, arg \in GetDataArgs :
          \E r \in {ensure_auth("get_data", arg, Begin(service), 1)} :
              Finish("get_data", arg, r)

InsertData ==
    /\ Idle
    /\ \E service \in Services, arg \in InsertDataArgs :
          \E r \in {ensure_auth("insert_data", arg, Begin(service), 1)} :
              Finish("insert_data", arg, r)

DeleteData ==
    /\ Idle
    /\ \E service \in Services, arg \in DeleteDataArgs :
          \E r \in {ensure_auth("delete_data", arg, Begin(service), 1)} :
              Finish("delete_data", arg, r)

UpdateDataQuality ==
    /\ Idle
    /\ \E service \in Services, arg \in UpdateDataQualityArgs :
          \E r \in {update_data_quality(Begin(service), arg)} :
              Finish("update_data_quality", arg, r)

GetStatistics ==
    /\ Idle
    /\ \E service \in Services :
          \E r \in {ensure_auth("get_statistics", None, Begin(service), 1)} :
              Finish("get_statistics", None, r)

Qualities ==
    /\ Idle
    /\ \E service \in Services :
          \E r \in {cached_property("qualities", Begin(service), 1)} :
              Finish("qualities", None, r)

QualityLevelToName ==
    /\ Idle
    /\ \E service \in Services :
          \E r \in {cached_property("quality_level_to_name", Begin(service), 1)} :
              Finish("quality_level_to_name", None, r)

QualityNameToLevel ==
    /\ Idle
    /\ \E service \in Services :
          \E r \in {cached_property("quality_name_to_level", Begin(service), 1)} :
              Finish("quality_name_to_level", None, r)

\* Any of the reference tables, while at most MaxCached of them are cached.
ReferenceTable ==
    /\ Idle
    /\ \E service \in TwoAnswerServices, table \in RefTables :
          /\ \/ cache[table] # None
             \/ Cardinality({t \in RefTables : cache[t] # None}) < MaxCached
          /\ \E r \in {cached_property(table, Begin(service), 1)} :
                Finish(table, None, r)

\* with DatafarmRepository(...) as datafarm: the block is entered when
\* __enter__ returns.
Enter ==
    /\ Idle /\ pc = "out"
    /\ \E service \in LoginServices :
          \E r \in {__enter__(Log(Begin(service), Ev("__enter__", "__enter__", 0, NoExc)))} :
              /\ access_token' = r.st.access_token
              /\ headers' = r.st.headers
              /\ _connected' = r.st._connected
              /\ cache' = r.st.cache
              /\ last' = [op |-> "__enter__", arg |-> None, pre |-> Session,
                          trace |-> r.st.trace, exc |-> r.exc, ret |-> r.ret]
              /\ pc' = IF Raised(r) THEN "out" ELSE "body"
              /\ UNCHANGED <<pending, history, ins, json_input, dt_in>>

\* Leaving the block, at its end or with the exception pending: the with
\* statement calls __exit__ with that exception; the exception goes on unless
\* __exit__ returns a true value, and an exception of __exit__ takes its place.
Exit ==
    /\ \/ Idle /\ pc = "body"
       \/ pc = "exc"
    /\ \E service \in OneAnswerServices :
          \E r \in {__exit__(Log(Begin(service), Ev("__exit__", "__exit__", 0, pending)),
                             pending)} :
              /\ access_token' = r.st.access_token
              /\ headers' = r.st.headers
              /\ _connected' = r.st._connected
              /\ cache' = r.st.cache
              /\ last' = [op |-> "__exit__", arg |-> None, pre |-> Session,
                          trace |-> r.st.trace,
                          exc |-> IF Raised(r) THEN r.exc
                                  ELSE IF r.ret # None THEN NoExc
                                  ELSE pending,
                          ret |-> None]
              /\ pc' = "out"
              /\ pending' = NoExc
              /\ UNCHANGED <<history, ins, json_input, dt_in>>

\* The caller has looked at the result of its last call.
Continue ==
    /\ last # NoCall /\ pc # "exc"
    /\ last' = NoCall
    /\ UNCHANGED <<access_token, headers, _connected, cache, pc, pending, history, ins, json_input, dt_in>>

\* The same, the caller remembering what the call was and how it ended.
Remember ==
    /\ last # NoCall /\ pc # "exc"
    /\ last' = NoCall
    /\ history' = Append(history, [op |-> last.op, exc |-> last.exc])
    /\ UNCHANGED <<access_token, headers, _connected, cache, pc, pending, ins, json_input, dt_in>>

Init ==
    /\ access_token = None
    /\ headers = None
    /\ _connected = FALSE
    /\ cache = [name \in CachedProperties |-> None]
    /\ pc = "out"
    /\ pending = NoExc
    /\ last = NoCall
    /\ history = << >>
    /\ ins = None
    /\ json_input = None
    /\ dt_in = None

Next ==
    \/ Connect
    \/ Close
    \/ ListTimeSeries
    \/ GetData
    \/ InsertData
    \/ DeleteData
    \/ UpdateDataQuality
    \/ GetStatistics
    \/ Qualities
    \/ QualityLevelToName
    \/ QualityNameToLevel
    \/ Continue

Spec == Init /\ [][Next]_vars

\* Scoped use: a with block whose body lists the time series and may close
\* or reconnect the session itself.
NextScope ==
    \/ Enter
    \/ ListTimeSeries
    \/ Connect
    \/ Close
    \/ Exit
    \/ Continue

SpecScope == Init /\ [][NextScope]_vars

\* The session alone: connect and close in any order, the calls remembered.
NextSession ==
    \/ Len(history) < MaxHistory /\ Connect
    \/ Len(history) < MaxHistory /\ Close
    \/ Remember

SpecSession == Init /\ [][NextSession]_vars

\* The reference tables: every accessor, connect and close.
NextTables ==
    \/ ReferenceTable
    \/ Connect
    \/ Close
    \/ Continue

SpecTables == Init /\ [][NextTables]_vars

\* The accessor calls the caller remembers.
RememberedAccesses ==
    {i \in DOMAIN history : history[i].op \in CachedProperties}

\* A caller that accesses a cached accessor and, when the access fails,
\* accesses the same accessor once more.
TriesAgain(name) ==
    /\ RememberedAccesses \subseteq {Len(history)}
    /\ \A i \in RememberedAccesses :
          history[i].op = name /\ history[i].exc # NoExc

\* That caller's access of a reference table or of a quality dictionary.
Access ==
    /\ Idle
    /\ \E name \in CachedProperties :
          /\ TriesAgain(name)
          /\ \E service \in TwoAnswerServices :
                \E r \in {cached_property(name, Begin(service), 1)} :
                    Finish(name, None, r)

\* The cached accessors with that caller, who remembers every call, on a
\* session that is connected first or not at all.
NextRefetch ==
    \/ Access
    \/ history = << >> /\ Connect
    \/ Remember

SpecRefetch == Init /\ [][NextRefetch]_vars

-----------------------------------------------------------------------------
(* The insert payload builder on its own                                   *)

\* Number of rows of the tables handed to the builder.
MaxRows == 1

\* The columns a table may have, in the order it has them, and the cells
\* each may hold.
InsertColumns ==
    <<"TimeStamp", "Quality", "QualityLevel", "QualityTxt", "Data", "Confidence",
      "Duration", "FilePath", "Comment", "TimeSeriesName">>

InsertCells(c) ==
    CASE c = "TimeStamp" -> {D1, BadDate}
      [] c = "Quality" -> {IntCell(0), StrCell("critical"), StrCell("bogus")}
      [] c = "QualityLevel" -> {IntCell(0)}
      [] c = "QualityTxt" -> {StrCell("critical"), StrCell("bogus")}
      [] c = "Data" -> {FloatCell(0), FloatCell(1), NaNCell}
      [] c = "Confidence" -> {IntCell(1), NaNCell}
      [] c = "Duration" -> {IntCell(1)}
      [] c = "FilePath" -> {StrCell("tests/data/test_upload.txt"), StrCell("tests/data/missing.txt")}
      [] c = "Comment" -> {StrCell("note")}
      [] c = "TimeSeriesName" -> {StrCell("other")}

\* The columns besides the timestamp, the quality and the data.
ExtraColumns == {"Confidence", "Duration", "FilePath", "Comment", "TimeSeriesName"}

\* The rows over the columns S.
RECURSIVE RowsOver(_)
RowsOver(S) ==
    IF S = {} THEN {<< >>}
    ELSE LET c == CHOOSE x \in S : TRUE
         IN  {[k \in S |-> IF k = c THEN v ELSE r[k]] :
                 v \in InsertCells(c), r \in RowsOver(S \ {c})}

\* seq restricted to the entries in S, order kept.
RECURSIVE Keep(_, _)
Keep(seq, S) ==
    IF seq = << >> THEN << >>
    ELSE IF Head(seq) \in S THEN << Head(seq) >> \o Keep(Tail(seq), S)
    ELSE Keep(Tail(seq), S)

\* The columns of a table: any of InsertColumns, at most one of them a
\* quality column and at most two of them extra columns.
InsertColumnSets ==
    {T \in SUBSET Range(InsertColumns) :
        /\ Cardinality(T \cap QualityAliases) <= 1
        /\ Cardinality(T \cap ExtraColumns) <= 2}

\* The tables of columns S: up to MaxRows rows.
InsertTables(S) ==
    UNION {{DataFrame(Keep(InsertColumns, S), None, rows) :
               rows \in [1..n -> RowsOver(S)]} : n \in 0..MaxRows}

\* A service that answers every request, and one whose tables are out of order.
InsertServices ==
    {Service(Response(200, Some("t1")), << >>, t) :
        t \in {Response(200, Some("v1")), Response(200, Some("v2")), Response(500, None)}}

InitInsert ==
    /\ access_token = None
    /\ headers = None
    /\ _connected = FALSE
    /\ cache = [name \in CachedProperties |-> None]
    /\ pc = "out"
    /\ pending = NoExc
    /\ last = NoCall
    /\ history = << >>
    /\ \E S \in InsertColumnSets : ins \in {Some(table) : table \in InsertTables(S)}
    /\ json_input = None
    /\ dt_in = None

GetInsertDataBody ==
    /\ Idle
    /\ ins # None
    /\ \E service \in InsertServices :
          \E r \in {_get_insert_data_body(Begin(service),
                                          [time_series_id |-> "ts", bulk_insert |-> FALSE,
                                           data |-> ins[1]], 0)} :
              Finish("_get_insert_data_body", None, r)

NextInsert == GetInsertDataBody

SpecInsert == InitInsert /\ [][NextInsert]_vars

-----------------------------------------------------------------------------
(* The table decoder on its own                                            *)

\* Number of fields of the schemas, and of rows of the data, handed to the decoder.
MaxFields == 2
MaxDocRows == 2

\* The fields a schema declares, in order, and the cells a row may hold at
\* the place of each (a further cell for a row that is too long).
DocFields ==
    <<Field("ID", "string"), Field("Level", "integer"), Field("Time", "datetime"),
      Field("Value", "number")>>

DocCells(j) ==
    CASE j = 1 -> {StrCell("a"), StrCell("b")}
      [] j = 2 -> {IntCell(1), NoneCell}
      [] j = 3 -> {IntCell(1000)}
      [] OTHER -> {FloatCell(1)}

\* The rows of k cells.
RECURSIVE DocRows(_)
DocRows(k) ==
    IF k = 0 THEN {<< >>}
    ELSE {Append(r, c) : r \in DocRows(k - 1), c \in DocCells(k)}

\* The data of a document with n fields: absent, or up to MaxDocRows rows of
\* up to n + 1 cells.
DocData(n) ==
    {None} \cup
    {Some(rows) : rows \in UNION {[1..m -> UNION {DocRows(k) : k \in 0..(n + 1)}] :
                                      m \in 0..MaxDocRows}}

\* The documents with a schema of n fields, the primary key naming a field,
\* naming no field or empty; for n = 0, the documents without a schema.
Documents(n) ==
    IF n = 0 THEN {TableDocument(None, data) : data \in DocData(1)}
    ELSE {TableDocument(Some(Schema(SubSeq(DocFields, 1, n), pk)), data) :
             pk \in {<<"ID">>, <<"Level">>, <<"Missing">>, << >>}, data \in DocData(n)}

InitDecode ==
    /\ access_token = None
    /\ headers = None
    /\ _connected = FALSE
    /\ cache = [name \in CachedProperties |-> None]
    /\ pc = "out"
    /\ pending = NoExc
    /\ last = NoCall
    /\ history = << >>
    /\ ins = None
    /\ \E n \in 0..MaxFields : json_input \in {Some(d) : d \in Documents(n)}
    /\ dt_in = None

Decode ==
    /\ Idle
    /\ json_input # None
    /\ \E r \in {to_pandas_df(json_input[1])} :
          last' = [op |-> "to_pandas_df", arg |-> None, pre |-> Session,
                   trace |-> << >>, exc |-> r.exc, ret |-> r.ret]
    /\ UNCHANGED <<access_token, headers, _connected, cache, pc, pending, history, ins, json_input, dt_in>>

NextDecode == Decode

SpecDecode == InitDecode /\ [][NextDecode]_vars

-----------------------------------------------------------------------------
(* The datetime normalizer on its own                                      *)

\* The values handed to _parse_datetime: strings (ISO-style or MM/DD/YYYY
\* HH:MM:SS, which pandas reads to the same wall-clock value) and datetime
\* objects, naive or with a UTC offset (a trailing Z in strings only), with
\* no sub-second part, whole milliseconds or microseconds; and strings that
\* pandas cannot parse.
DateTimes ==
    {d \in {DateTime(kind, valid, wall, micro, offset) :
                kind \in {"dtstr", "dtobj"}, valid \in BOOLEAN,
                wall \in {"2015-03-24T10:16:45", "2023-05-15T14:30:00", "2023-05-16T00:00:00"},
                micro \in {0, 34000, 34567},
                offset \in {"", "Z", "+00:00", "+02:00"}} :
        d.t = "dtobj" => (d.valid /\ d.offset # "Z")}

InitNormalize ==
    /\ access_token = None
    /\ headers = None
    /\ _connected = FALSE
    /\ cache = [name \in CachedProperties |-> None]
    /\ pc = "out"
    /\ pending = NoExc
    /\ last = NoCall
    /\ history = << >>
    /\ ins = None
    /\ json_input = None
    /\ dt_in \in {Some(d) : d \in DateTimes}

ParseDatetime ==
    /\ Idle
    /\ dt_in # None
    /\ \E r \in {_parse_datetime(dt_in[1])} :
          last' = [op |-> "_parse_datetime", arg |-> None, pre |-> Session,
                   trace |-> << >>, exc |-> r.exc, ret |-> r.ret]
    /\ UNCHANGED <<access_token, headers, _connected, cache, pc, pending, history, ins,
                   json_input, dt_in>>

NextNormalize == ParseDatetime

SpecNormalize == InitNormalize /\ [][NextNormalize]_vars

-----------------------------------------------------------------------------
(* Reading the trace of the last call                                      *)

Trace == IF last = NoCall THEN << >> ELSE last.trace

SetMin(S) == CHOOSE m \in S : \A k \in S : m <= k

Events(ev) == {k \in DOMAIN Trace : Trace[k].ev = ev}

\* The frames of the retry wrapper: the places <<i, j>> of a "wrapper" event
\* and of the "wrapper_exit" event that ends the same invocation.
Match(i) ==
    SetMin({j \in (i + 1)..Len(Trace) :
               /\ Trace[j].ev = "wrapper_exit"
               /\ Trace[j].op = Trace[i].op
               /\ Trace[j].d = Trace[i].d})

Frames == {<<i, Match(i)>> : i \in Events("wrapper")}

\* The number of wrapper invocations event k lies in.
Level(k) ==
    Cardinality({i \in 1..k : Trace[i].ev = "wrapper"})
        - Cardinality({i \in 1..(k - 1) : Trace[i].ev = "wrapper_exit"})

\* The frames nested in f, and the events of f that belong to none of them.
Nested(f) ==
    {<<i, Match(i)>> : i \in {k \in (f[1] + 1)..(f[2] - 1) : Trace[k].ev = "wrapper"}}

Own(f) == {k \in f[1]..f[2] : Level(k) = Level(f[1])}

OwnEv(f, ev) == {k \in Own(f) : Trace[k].ev = ev}

\* The outcome of the first invocation of the wrapped function in frame f,
\* and of the connect() the frame made.
FirstExit(f) == Trace[SetMin(OwnEv(f, "func_exit"))]
LastExit(f) == Trace[SeqMax(OwnEv(f, "func_exit"))]
ConnectExit(f) == Trace[SetMin(OwnEv(f, "connect_exit"))]

Is401(exc) == exc.type = "HTTPError" /\ exc.status = 401
IsOtherHTTPError(exc) == exc.type = "HTTPError" /\ exc.status # 401

SameSession(e1, e2) == e1.c = e2.c /\ e1.tok = e2.tok /\ e1.hdr = e2.hdr

RequestsTo(endpoints) ==
    {k \in DOMAIN Trace : Trace[k].ev = "request" /\ Trace[k].op \in endpoints}

-----------------------------------------------------------------------------
(* The retry wrapper                                                       *)

\* C1: for every invocation of the retry wrapper that starts while the session
\* is Connected and whose wrapped call fails with HTTP 401, the wrapper calls
\* connect() exactly once, after that failure; when that connect() returns it
\* calls the wrapped function exactly once more and the outcome of this retry,
\* a second 401 included, is the outcome of the invocation, with no further
\* connect() or retry; when that connect() fails its error is the outcome and
\* the wrapped function is not called again.
C1_ReconnectOnceRetryOnce ==
    \A f \in Frames :
        (Trace[f[1]].c /\ Is401(FirstExit(f).x)) =>
            /\ Cardinality(OwnEv(f, "connect")) = 1
            /\ SetMin(OwnEv(f, "connect")) > SetMin(OwnEv(f, "func_exit"))
            /\ IF ConnectExit(f).x = NoExc
               THEN /\ Cardinality(OwnEv(f, "func")) = 2
                    /\ Trace[f[2]].x = LastExit(f).x
               ELSE /\ Cardinality(OwnEv(f, "func")) = 1
                    /\ Trace[f[2]].x = ConnectExit(f).x

\* A top-level call on a Connected session: 401, a successful connect(), and
\* a retry that is answered 401 again and reaches the caller.
C1_Witness ==
    /\ last # NoCall
    /\ \E f \in Frames :
          /\ f[1] = 1
          /\ Trace[f[1]].c
          /\ Is401(FirstExit(f).x)
          /\ ConnectExit(f).x = NoExc
          /\ Cardinality(OwnEv(f, "func")) = 2
          /\ Is401(LastExit(f).x)
          /\ Is401(last.exc)

\* The endpoints an operation sends its own request to.
OwnEndpoints(op) ==
    CASE op = "list_time_series" -> {"/List/TimeSeries/"}
      [] op = "get_data" -> {"/TimeSeries/ExtractData"}
      [] op = "insert_data" -> {"/TimeSeries/InsertData"}
      [] op = "delete_data" -> {"/TimeSeries/DeleteData", "/TimeSeries/DeleteDataRange"}
      [] op = "update_data_quality" -> {"/TimeSeries/UpdateDataQuality"}
      [] op = "get_statistics" -> {"/TimeSeries/Statistics"}
      [] op \in RefTables -> {Endpoint(op)}
      [] OTHER -> {}

\* C2: every facade operation is covered by the retry policy: when the first
\* request an operation sends to its own endpoint is answered 401 while the
\* session is Connected, connect() is called after it and, when that connect()
\* returns, the request is sent again (update_data_quality's POST included).
C2_EveryOperationRetries ==
    (last # NoCall /\ RequestsTo(OwnEndpoints(last.op)) # {}) =>
        LET first == SetMin(RequestsTo(OwnEndpoints(last.op)))
        IN  (Trace[first].c /\ Trace[first].x.status = 401) =>
                /\ \E k \in Events("connect") : k > first
                /\ \A k \in Events("connect_exit") :
                      (k > first /\ Trace[k].x = NoExc) =>
                          \E j \in RequestsTo(OwnEndpoints(last.op)) : j > k

C9_OtherErrorsPropagate ==
    \A f \in Frames :
        \A k \in OwnEv(f, "func_exit") :
            IsOtherHTTPError(Trace[k].x) =>
                /\ \A j \in OwnEv(f, "func") \cup OwnEv(f, "connect")
                            \cup OwnEv(f, "reconnect") : j < k
                /\ Trace[f[2]].x = Trace[k].x
                /\ SameSession(Trace[f[2]], Trace[k])
                /\ (k = SetMin(OwnEv(f, "func_exit"))) => OwnEv(f, "connect") = {}
                /\ (k = SetMin(OwnEv(f, "func_exit")) /\ f[1] = 1 /\ Nested(f) = {}) =>
                       /\ last.exc = Trace[k].x
                       /\ access_token = last.pre.access_token
                       /\ headers = last.pre.headers
                       /\ _connected = last.pre._connected

\* A top-level call on a Connected session whose request is answered 500.
C9_Witness ==
    /\ last # NoCall
    /\ last.pre._connected
    /\ last.exc = HTTPError(500)
    /\ \E f \in Frames :
          /\ f[1] = 1
          /\ FirstExit(f).x = HTTPError(500)
          /\ Cardinality(OwnEv(f, "func")) = 1
    /\ _connected

-----------------------------------------------------------------------------
(* The cached reference tables                                             *)

\* C4: once a reference table is cached, no step changes its cached value
\* (connect() and close() included), no later call sends a request to the
\* table's endpoint, and every later access returns the cached value.
C4_CachedForLifetime ==
    [][\A t \in RefTables :
          cache[t] # None =>
              /\ cache'[t] = cache[t]
              /\ (last' # NoCall /\ last' # last) =>
                     /\ \A k \in DOMAIN last'.trace :
                           ~(last'.trace[k].ev = "request"
                             /\ last'.trace[k].op = Endpoint(t))
                     /\ (last'.op = t) => (last'.exc = NoExc /\ last'.ret = cache[t])]_vars

\* An access to a table that was cached before: answered with the cached
\* value, without a request.
C4_Witness ==
    /\ last # NoCall
    /\ last.op \in RefTables
    /\ last.pre.cache[last.op] # None
    /\ last.ret = last.pre.cache[last.op]
    /\ Events("request") = {}
    /\ cache[last.op] = last.pre.cache[last.op]

-----------------------------------------------------------------------------
(* The session                                                             *)

\* The answer to the request of a connect() or close() call of the caller.
Answer == Trace[SetMin(Events("request"))].x

\* C5 (as the code has it): when close() is invoked on a Connected session
\* and the logoff request succeeds, the session ends Disconnected with
\* access_token and headers cleared; when the logoff request fails, close()
\* raises that HTTP error and the session stays as it was, Connected with its
\* token and headers.
C5_CloseClearsOnSuccess ==
    (last # NoCall /\ last.op = "close" /\ last.pre._connected) =>
        IF raise_for_status([status |-> Answer.status, body |-> None]) = NoExc
        THEN /\ last.exc = NoExc
             /\ ~_connected /\ access_token = None /\ headers = None
        ELSE /\ last.exc = HTTPError(Answer.status)
             /\ _connected
             /\ access_token = last.pre.access_token
             /\ headers = last.pre.headers

\* A close() of a Connected session whose logoff request is answered 500.
C5_Witness ==
    /\ last # NoCall
    /\ last.op = "close"
    /\ last.pre._connected
    /\ last.exc = HTTPError(500)
    /\ _connected
    /\ access_token # None

\* C5 as stated: whenever close() is invoked on a Connected session, the
\* session ends Disconnected with access_token and headers cleared, whether
\* the logoff request succeeds or fails.
C5_CloseAlwaysClears ==
    (last # NoCall /\ last.op = "close" /\ last.pre._connected) =>
        (~_connected /\ access_token = None /\ headers = None)

\* C7: when the login response carries an access token, connect() returns
\* and the session is Connected, access_token is that token and headers is
\* the Access-Token header made of it; when the login response carries no
\* access token, connect() raises its authentication error and the session is
\* left as it was: it does not become Connected.
C7_ConnectByToken ==
    (last # NoCall /\ last.op = "connect" /\ Answer.status = 200) =>
        IF Answer.body # None
        THEN /\ last.exc = NoExc
             /\ _connected
             /\ access_token = Answer.body
             /\ headers = Some([Access_Token |-> Answer.body[1]])
        ELSE /\ last.exc = KeyError("Could not get access token")
             /\ _connected = last.pre._connected
             /\ access_token = last.pre.access_token
             /\ headers = last.pre.headers

\* A connect() of a Disconnected session whose login response has no token.
C7_Witness ==
    /\ last # NoCall
    /\ last.op = "connect"
    /\ ~last.pre._connected
    /\ Answer.status = 200
    /\ Answer.body = None
    /\ last.exc.type = "KeyError"
    /\ ~_connected

Ok(op) == [op |-> op, exc |-> NoExc]

\* C8: a new repository has no access token and no headers; after every
\* successful connect() both are present, and after every successful close()
\* both are absent, however many connect() and close() calls came before.
C8_Lifecycle ==
    /\ (history = << >> /\ last = NoCall) => (access_token = None /\ headers = None)
    /\ (last # NoCall /\ last.op = "connect" /\ last.exc = NoExc) =>
           (access_token # None /\ headers # None)
    /\ (last # NoCall /\ last.op = "close" /\ last.exc = NoExc) =>
           (access_token = None /\ headers = None)

\* connect(), close() and connect() again, all successful: token and headers
\* are present again.
C8_Witness ==
    /\ history = <<Ok("connect"), Ok("close")>>
    /\ last # NoCall
    /\ last.op = "connect"
    /\ last.exc = NoExc
    /\ last.pre.access_token = None
    /\ last.pre.headers = None
    /\ access_token # None
    /\ headers # None

\* C6: a with block is entered only by __enter__, which calls connect() once
\* and whose connect() returned; the block is left only by __exit__, which
\* calls close() exactly once, at the end of the body as well as with an
\* exception of the body pending; and leaving with an exception pending ends
\* with an exception raised to the caller: the pending one whenever close()
\* returns, the error of close() otherwise.
C6_ScopedUse ==
    [][/\ (last' # NoCall /\ last' # last /\ last'.op = "__enter__") =>
              Cardinality({k \in DOMAIN last'.trace : last'.trace[k].ev = "connect"}) = 1
       /\ (pc = "out" /\ pc' # "out") =>
              /\ last'.op = "__enter__"
              /\ last'.exc = NoExc
              /\ pc' = "body"
       /\ (pc # "out" /\ pc' = "out") =>
              /\ last'.op = "__exit__"
              /\ Cardinality({k \in DOMAIN last'.trace : last'.trace[k].ev = "close"}) = 1
              /\ pending # NoExc =>
                     /\ last'.exc # NoExc
                     /\ (last'.trace[Len(last'.trace)].x = NoExc) => last'.exc = pending
      ]_vars

\* A block left with an exception of its body pending: close() was called
\* once and returned, and the exception reached the caller.
C6_Witness ==
    /\ last # NoCall
    /\ last.op = "__exit__"
    /\ Trace[1].x # NoExc
    /\ Cardinality(Events("close")) = 1
    /\ Trace[Len(Trace)].x = NoExc
    /\ last.exc = Trace[1].x
    /\ pc = "out"

-----------------------------------------------------------------------------
(* The insert payload                                                      *)

\* The column names the insert accepts
AdmittedColumns ==
    {"TimeStamp", "Confidence", "Data", "Duration", "FilePath"} \cup QualityAliases

\* C10: for every input table with a column whose name is not admitted,
\* preparing the insert either fails or produces a body without that column.
C10_UnknownColumnNeverInBody ==
    (last # NoCall /\ last.op = "_get_insert_data_body" /\ ins # None) =>
        \A c \in Range(ins[1].columns) \ AdmittedColumns :
            \/ last.exc # NoExc
            \/ c \notin DOMAIN last.ret[1]

\* The table handed to the builder, and the name of its quality column.
Input == ins[1]

InputRows == DOMAIN Input.rows

QualityColumn == CHOOSE c \in Range(Input.columns) : c \in QualityAliases

BuilderReturned ==
    last # NoCall /\ last.op = "_get_insert_data_body" /\ ins # None

\* C11: a non-empty table that has only a valid TimeStamp column and one
\* quality alias column (of integers) is accepted, and the body has no value
\* for Data, Confidence, Duration or a file.
C11_OptionalColumnsAccepted ==
    (/\ BuilderReturned
     /\ Input.rows # << >>
     /\ Range(Input.columns) \ QualityAliases = {"TimeStamp"}
     /\ Cardinality(Range(Input.columns) \cap QualityAliases) = 1
     /\ \A i \in InputRows :
           /\ _parse_datetime(Input.rows[i]["TimeStamp"]).exc = NoExc
           /\ Input.rows[i][QualityColumn].t = "int") =>
        /\ last.exc = NoExc
        /\ (DOMAIN last.ret[1])
              \cap {"Data", "Confidence", "Duration", "ObjectFileName", "ObjectBase64"} = {}

\* The rows of the qualities table the service served during the call, and
\* the level it gives the quality name x.
ServedQualities ==
    QualitiesDocument(Trace[SetMin(RequestsTo({"/List/Qualities"}))].x.body[1]).data[1]

ServedNames == {ServedQualities[i][2] : i \in DOMAIN ServedQualities}

ServedLevel(x) ==
    ServedQualities[CHOOSE i \in DOMAIN ServedQualities : ServedQualities[i][2] = x][3]

\* C12: for a table that is not empty: without a quality alias column the
\* preparation fails with the missing-quality-column error; with one, a body
\* that is produced has the quality values under QualityLevel (and under no
\* other alias), one integer per row, the level the service's qualities table
\* gives the name for a textual input value and the input value itself for an
\* integral one; and when the mapping was fetched and a textual value is not
\* one of its names, the preparation fails with the unknown-quality-name error.
C12_QualityNormalization ==
    (BuilderReturned /\ Input.rows # << >> /\ Input.columns # << >>) =>
        IF Range(Input.columns) \cap QualityAliases = {}
        THEN last.exc = ValueError("No quality column in data")
        ELSE /\ last.exc = NoExc =>
                   /\ (DOMAIN last.ret[1]) \cap QualityAliases = {"QualityLevel"}
                   /\ Len(last.ret[1]["QualityLevel"].v) = Len(Input.rows)
                   /\ \A i \in InputRows :
                         /\ last.ret[1]["QualityLevel"].v[i].t = "int"
                         /\ IF Input.rows[i][QualityColumn].t = "str"
                            THEN last.ret[1]["QualityLevel"].v[i]
                                     = ServedLevel(Input.rows[i][QualityColumn])
                            ELSE last.ret[1]["QualityLevel"].v[i]
                                     = Input.rows[i][QualityColumn]
             /\ (/\ cache["quality_name_to_level"] # None
                 /\ \E i \in InputRows :
                       /\ Input.rows[i][QualityColumn].t = "str"
                       /\ Input.rows[i][QualityColumn] \notin ServedNames) =>
                   last.exc = KeyError("Invalid quality string values")

\* A table whose QualityTxt column holds the name "critical", served the
\* second version of the qualities: the body holds level 2 under QualityLevel.
C12_Witness ==
    /\ BuilderReturned
    /\ last.exc = NoExc
    /\ QualityColumn = "QualityTxt"
    /\ Input.rows[1]["QualityTxt"] = StrCell("critical")
    /\ last.ret[1]["QualityLevel"].v[1] = IntCell(2)
    /\ "QualityTxt" \notin DOMAIN last.ret[1]

IsNull(v) == v.t \in {"nan", "none"}

\* {N: 0, V: float(v)} for a number, {N: 1, V: 0.0} for a missing value.
Encoded(v) ==
    IF IsNull(v) THEN [N |-> 1, V |-> FloatCell(0)] ELSE [N |-> 0, V |-> FloatCell(v.n)]

C14_BodyShape ==
    (BuilderReturned /\ last.exc = NoExc) =>
        /\ last.ret[1]["TimeSeriesName"] = [type |-> "str", v |-> "ts"]
        /\ last.ret[1]["BulkInsert"] = [type |-> "bool", v |-> FALSE]
        /\ \A k \in (DOMAIN last.ret[1]) \ {"TimeSeriesName", "BulkInsert"} :
              /\ last.ret[1][k].type = "list"
              /\ Len(last.ret[1][k].v) = Len(Input.rows)

-----------------------------------------------------------------------------
(* delete_data                                                             *)

TimestampsForm(arg) == arg.timestamps # None /\ arg.start = None /\ arg.end = None
RangeForm(arg) == arg.timestamps = None /\ arg.start # None /\ arg.end # None

\* The date-times of the argument can all be parsed.
DatesParse(arg) ==
    IF TimestampsForm(arg)
    THEN \A i \in DOMAIN arg.timestamps[1] : _parse_datetime(arg.timestamps[1][i]).exc = NoExc
    ELSE _parse_datetime(arg.start[1]).exc = NoExc /\ _parse_datetime(arg.end[1]).exc = NoExc

\* The end of the invocation of the wrapped function that starts at event k.
ExitOf(k) ==
    SetMin({j \in (k + 1)..Len(Trace) :
               /\ Trace[j].ev = "func_exit"
               /\ Trace[j].op = Trace[k].op
               /\ Trace[j].d = Trace[k].d})

DeleteEndpoints == {"/TimeSeries/DeleteData", "/TimeSeries/DeleteDataRange"}

-----------------------------------------------------------------------------
(* to_pandas_df                                                            *)

\* The document handed to to_pandas_df, and what of it the claims speak of.
Decoded == last.op = "to_pandas_df"
Document == json_input[1]
HasSchema == json_input # None /\ Document.schema # None
HasData == json_input # None /\ Document.data # None
FieldNames == [i \in DOMAIN Document.schema[1].fields |-> Document.schema[1].fields[i].name]
PrimaryKey == Document.schema[1].primaryKey
RowsFit == \A i \in DOMAIN Document.data[1] : Len(Document.data[1][i]) = Len(FieldNames)
KeyIsField == PrimaryKey # << >> /\ PrimaryKey[1] \in Range(FieldNames)

\* A valid Table Document with non-empty data: fields of distinct names, a
\* primary key that names one of them, at least one row, each row with one
\* cell per field.
ValidDocument ==
    /\ HasSchema /\ HasData
    /\ \A i, j \in DOMAIN FieldNames : FieldNames[i] = FieldNames[j] => i = j
    /\ KeyIsField
    /\ Document.data[1] # << >>
    /\ RowsFit

C17_NoDataEmptyTable ==
    (Decoded /\ HasSchema /\ ~HasData) =>
        /\ last.exc = NoExc
        /\ last.ret # None
        /\ last.ret[1].rows = << >>
        /\ last.ret[1].columns = FieldNames
        /\ last.ret[1].index = None

\* A schema of two fields whose key is one of them, and no data.
C17_Witness ==
    /\ Decoded /\ HasSchema /\ ~HasData
    /\ Len(FieldNames) = 2
    /\ KeyIsField
    /\ last.ret # None

\* C18: to_pandas_df fails and returns no table whenever some row of data has
\* a number of cells other than the number of schema.fields, or the first
\* entry of primaryKey names no field of schema.fields. (Stated for documents
\* that carry data: without data the table of C17 is returned.)
C18_MalformedRejected ==
    (/\ Decoded /\ HasSchema /\ HasData
     /\ \/ ~RowsFit
        \/ PrimaryKey # << >> /\ PrimaryKey[1] \notin Range(FieldNames))
    => (last.exc # NoExc /\ last.ret = None)

\* C19: to_pandas_df fails with ValueError("No schema in data") for every
\* document without a schema block, with or without a data key.
C19_MissingSchema ==
    (Decoded /\ json_input # None /\ ~HasSchema) =>
        /\ last.exc = ValueError("No schema in data")
        /\ last.ret = None

\* A document with rows and no schema.
C19_Witness ==
    /\ Decoded /\ ~HasSchema /\ HasData
    /\ Document.data[1] # << >>
    /\ last.exc.type = "ValueError"

-----------------------------------------------------------------------------
(* The quality mapping                                                     *)

\* The two dictionaries, once both are cached.
BothDictionaries ==
    cache["quality_level_to_name"] # None /\ cache["quality_name_to_level"] # None
level_to_name == cache["quality_level_to_name"][1]
name_to_level == cache["quality_name_to_level"][1]

\* C20: the quality mapping is a bijection: whatever table of qualities the
\* service returned, level_to_name[name_to_level[x]] = x for every name x of
\* name_to_level and name_to_level[level_to_name[l]] = l for every level l of
\* level_to_name.
C20_QualityBijection ==
    BothDictionaries =>
        /\ \A x \in DOMAIN name_to_level :
              /\ name_to_level[x] \in DOMAIN level_to_name
              /\ level_to_name[name_to_level[x]] = x
        /\ \A l \in DOMAIN level_to_name :
              /\ level_to_name[l] \in DOMAIN name_to_level
              /\ name_to_level[level_to_name[l]] = l

-----------------------------------------------------------------------------
(* The insert payload: timestamps and files                                *)

HasQualityColumn == Range(Input.columns) \cap QualityAliases # {}

\* The quality values of the input can be turned into levels: they are
\* integers, or names that the mapping fetched during the call knows.
QualityResolved ==
    /\ HasQualityColumn
    /\ \/ \A i \in InputRows : Input.rows[i][QualityColumn].t = "int"
       \/ /\ cache["quality_name_to_level"] # None
          /\ \A i \in InputRows :
                /\ Input.rows[i][QualityColumn].t = "str"
                /\ Input.rows[i][QualityColumn] \in ServedNames

\* C21: for a table that is not empty and whose quality values resolve:
\* without a TimeStamp column the preparation fails with the
\* missing-TimeStamp-column error; with a TimeStamp value that cannot be
\* parsed it fails with the invalid-datetime error; and in a body that is
\* produced every TimeStamp value is what _parse_datetime gives for the
\* value of the same row of the input.
C21_TimestampNormalization ==
    (BuilderReturned /\ Input.rows # << >> /\ QualityResolved) =>
        /\ "TimeStamp" \notin Range(Input.columns) =>
              last.exc = KeyError("No 'TimeStamp' column in data")
        /\ (/\ "TimeStamp" \in Range(Input.columns)
            /\ \E i \in InputRows : _parse_datetime(Input.rows[i]["TimeStamp"]).exc # NoExc) =>
              last.exc = ValueError("Invalid 'TimeStamp' column in data")
        /\ last.exc = NoExc =>
              /\ "TimeStamp" \in DOMAIN last.ret[1]
              /\ Len(last.ret[1]["TimeStamp"].v) = Len(Input.rows)
              /\ \A i \in InputRows :
                    last.ret[1]["TimeStamp"].v[i]
                        = _parse_datetime(Input.rows[i]["TimeStamp"]).ret[1]

\* The steps before the file attachment succeed whatever the files are: the
\* quality values resolve, the timestamps parse and the optional integer
\* columns hold integers.
ReachesFiles ==
    /\ Input.rows # << >>
    /\ QualityResolved
    /\ "TimeStamp" \in Range(Input.columns)
    /\ \A i \in InputRows :
          /\ _parse_datetime(Input.rows[i]["TimeStamp"]).exc = NoExc
          /\ \A c \in {"Confidence", "Duration"} \cap Range(Input.columns) :
                Input.rows[i][c].t = "int"

MissingFiles == {i \in InputRows : FileBytes(Input.rows[i]["FilePath"].s) = None}

\* C22: for a table with a FilePath column: in a body that is produced, for
\* every row ObjectFileName is the last segment of the row's FilePath and
\* ObjectBase64 decodes to the bytes of the file, and there is no FilePath;
\* when the file of some row does not exist no body is produced, and the
\* preparation, if the earlier steps let it come to the files, fails with the
\* file-not-found error naming the path.
C22_FileAttachment ==
    (BuilderReturned /\ "FilePath" \in Range(Input.columns)) =>
        /\ last.exc = NoExc =>
              /\ "FilePath" \notin DOMAIN last.ret[1]
              /\ {"ObjectFileName", "ObjectBase64"} \subseteq DOMAIN last.ret[1]
              /\ \A i \in InputRows :
                    /\ last.ret[1]["ObjectFileName"].v[i]
                           = StrCell(basename(Input.rows[i]["FilePath"].s))
                    /\ Some(b64decode(last.ret[1]["ObjectBase64"].v[i].s))
                           = FileBytes(Input.rows[i]["FilePath"].s)
        /\ MissingFiles # {} =>
              /\ last.exc # NoExc
              /\ last.ret = None
              /\ ReachesFiles =>
                    /\ last.exc.type = "FileNotFoundError"
                    /\ \E i \in MissingFiles : last.exc.arg = Input.rows[i]["FilePath"].s

-----------------------------------------------------------------------------
(* _parse_datetime                                                         *)

Normalized == last.op = "_parse_datetime" /\ dt_in # None

\* C23: for every value the normalizer accepts (an ISO-style string with or
\* without a trailing Z or a UTC offset, a MM/DD/YYYY HH:MM:SS string, a
\* datetime object, naive or aware) the result has the one form
\* YYYY-MM-DDTHH:MM:SS.mmmZ: three digits of milliseconds, one trailing Z and
\* no other UTC-offset part.
C23_CanonicalForm ==
    (Normalized /\ dt_in[1].valid) =>
        /\ last.exc = NoExc
        /\ last.ret # None
        /\ last.ret[1].wall = dt_in[1].wall
        /\ last.ret[1].ms \in 0..999
        /\ last.ret[1].offset = ""
        /\ last.ret[1].z = "Z"

-----------------------------------------------------------------------------
(* update_data_quality                                                     *)

Updated == last # NoCall /\ last.op = "update_data_quality"

\* The bodies the call posted to the UpdateDataQuality endpoint.
UpdateBodies ==
    {Trace[k].x.body : k \in {j \in Events("body") :
                                 Trace[j].op = "/TimeSeries/UpdateDataQuality"}}

\* The qualities of the argument, one per timestamp for a scalar.
GivenQualities ==
    IF last.arg.is_list THEN last.arg.quality
    ELSE [i \in DOMAIN last.arg.timestamps |-> last.arg.quality[1]]

\* The names every version of the service's qualities table knows.
KnownNames ==
    UNION {{QualitiesDocument(v).data[1][i][2] : i \in DOMAIN QualitiesDocument(v).data[1]} :
              v \in Versions}

\* C24: every body update_data_quality sends has as many QualityLevel entries
\* as TimeStamp entries, each an integer; and a call whose list of qualities
\* is not as long as the list of timestamps, or that names a quality the
\* service does not know, fails without a request to UpdateDataQuality.
C24_UpdateBody ==
    Updated =>
        /\ RequestsTo({"/TimeSeries/UpdateDataQuality"}) # {} => UpdateBodies # {}
        /\ \A body \in UpdateBodies :
              /\ Len(body.TimeStamp) = Len(body.QualityLevel)
              /\ \A i \in DOMAIN body.QualityLevel : body.QualityLevel[i].t = "int"
        /\ (\/ Len(GivenQualities) # Len(last.arg.timestamps)
            \/ \E i \in DOMAIN GivenQualities :
                  GivenQualities[i].t = "str" /\ GivenQualities[i] \notin KnownNames) =>
              /\ last.exc # NoExc
              /\ RequestsTo({"/TimeSeries/UpdateDataQuality"}) = {}

-----------------------------------------------------------------------------
(* Nested retry wrappers                                                   *)

\* The endpoints, other than the login, the call sent requests to.
Requested == {Trace[k].op : k \in Events("request")} \ {"/Login/Login"}

\* Every request of the call, the logins aside, was answered 401.
AllAnswered401 ==
    /\ Requested # {}
    /\ \A k \in RequestsTo(Requested) : Trace[k].x.status = 401

\* C25: a top-level call made while Connected, all of whose requests are
\* answered 401, makes at most one connect() and sends no request more than
\* twice, the calls that fetch the quality mapping on the way included.
C25_NoMultipliedReauthentication ==
    (last # NoCall /\ last.pre._connected /\ AllAnswered401) =>
        /\ Cardinality(Events("connect")) <= 1
        /\ \A e \in Requested : Cardinality(RequestsTo({e})) <= 2

-----------------------------------------------------------------------------
(* insert_data: errors of the preparation                                  *)

Inserted == last # NoCall /\ last.op = "insert_data"

\* The errors _prepare_insert_data raises on its own account.
PreparationErrors == {"ValueError", "KeyError", "SchemaError", "FileNotFoundError"}

\* The places of the trace where insert_data itself ended with such an error.
PreparationFailures ==
    {k \in Events("func_exit") :
        Trace[k].op = "insert_data" /\ Trace[k].x.type \in PreparationErrors}

\* C26: when the preparation of the table fails inside insert_data, the error
\* is the outcome of the call at once: the wrapper ends with it as the next
\* step, so connect() is not called because of it and the preparation is not
\* run again, and no request went to the InsertData endpoint.
C26_PreparationErrorsNotRetried ==
    Inserted =>
        \A k \in PreparationFailures :
            /\ k + 1 = Len(Trace)
            /\ Trace[k + 1].ev = "wrapper_exit"
            /\ Trace[k + 1].op = "insert_data"
            /\ Trace[k + 1].x = Trace[k].x
            /\ last.exc = Trace[k].x
            /\ last.ret = None
            /\ RequestsTo({"/TimeSeries/InsertData"}) = {}
            /\ \A j \in Events("connect") \cup Events("func") : j < k

\* A connected session and a table with a file that does not exist.
C26_Witness ==
    /\ Inserted
    /\ last.pre._connected
    /\ PreparationFailures # {}
    /\ last.exc.type = "FileNotFoundError"

-----------------------------------------------------------------------------
(* connect() that fails                                                    *)

\* The connect() calls of the trace that failed, by the place of their end.
FailedConnects == {k \in Events("connect_exit") : Trace[k].x # NoExc}

\* The place where the connect() that ends at k began.
ConnectOf(k) == SeqMax({j \in Events("connect") : j < k})

\* C27: a connect() that fails, the login being rejected or its response
\* carrying no token, leaves access_token, headers and the connected flag as
\* they were: a Disconnected session stays Disconnected and without token;
\* and within a re-authentication after a 401 the failure is the outcome of
\* the wrapper, the wrapped function not being called again.
C27_FailedConnectChangesNothing ==
    /\ (last # NoCall /\ last.op = "connect" /\ last.exc # NoExc) =>
           /\ Session = last.pre
           /\ ~last.pre._connected => (~_connected /\ access_token = None)
    /\ \A k \in FailedConnects : SameSession(Trace[k], Trace[ConnectOf(k)])
    /\ \A f \in Frames :
           \A k \in OwnEv(f, "connect_exit") \cap FailedConnects :
               /\ Trace[f[2]].x = Trace[k].x
               /\ \A j \in OwnEv(f, "func") : j < k

\* A call on a Connected session answered 401, whose re-authentication gets a
\* login response without token: the KeyError reaches the caller, the
\* session still holds the old token.
C27_Witness ==
    /\ last # NoCall
    /\ last.pre._connected
    /\ \E f \in Frames :
          /\ f[1] = 1
          /\ Is401(FirstExit(f).x)
          /\ OwnEv(f, "connect_exit") \cap FailedConnects # {}
    /\ last.exc = KeyError("Could not get access token")
    /\ access_token = last.pre.access_token
    /\ _connected

-----------------------------------------------------------------------------
(* Consistency of the session                                              *)

\* C28: between calls, whatever connect(), close() and facade operations came
\* before and however they ended, the connected flag is set exactly when an
\* access token is present, headers are present exactly when the token is,
\* and they are then {"Access-Token": access_token}.
C28_SessionConsistent ==
    /\ _connected <=> access_token # None
    /\ headers # None <=> access_token # None
    /\ access_token # None => headers = Some([Access_Token |-> access_token[1]])

\* A facade operation on a Connected session that re-authenticated, got
\* another token and failed all the same.
C28_Witness ==
    /\ last # NoCall
    /\ last.op \notin {"connect", "close"}
    /\ last.pre._connected
    /\ last.exc # NoExc
    /\ _connected
    /\ access_token # last.pre.access_token
    /\ headers = Some([Access_Token |-> access_token[1]])

-----------------------------------------------------------------------------
(* Failed fetches                                                          *)

\* The caller's call is an access of a cached accessor that had no stored value.
FirstAccess ==
    /\ last # NoCall
    /\ last.op \in CachedProperties
    /\ last.pre.cache[last.op] = None

\* The caller's call follows a failed access of the same accessor.
AfterFailedAccess ==
    /\ last # NoCall
    /\ last.op \in CachedProperties
    /\ RememberedAccesses # {}
    /\ history[SeqMax(RememberedAccesses)].op = last.op
    /\ history[SeqMax(RememberedAccesses)].exc # NoExc

\* The function under the decorators ran for the caller's access.
FetchIssued ==
    /\ \E k \in Events("func") : Trace[k].op = last.op /\ Trace[k].d = 1
    /\ last.op \in RefTables => RequestsTo({Endpoint(last.op)}) # {}

\* What the accessor's function computes from the last answer of its
\* endpoint, or from the qualities table for the two dictionaries.
Fetched ==
    IF last.op \in RefTables
    THEN to_pandas_df(Json(Endpoint(last.op),
            Trace[SeqMax(RequestsTo({Endpoint(last.op)}))].x.body)).ret
    ELSE IF cache["qualities"][1].rows = << >> THEN Some(<< >>)
    ELSE IF last.op = "quality_level_to_name"
    THEN Some(DictOfRows(cache["qualities"][1], "Level", "IDName"))
    ELSE Some(DictOfRows(cache["qualities"][1], "IDName", "Level"))

\* C29: an access of a reference table or of a quality dictionary that fails
\* stores nothing under that accessor, and leaves every other stored value as
\* it was (the qualities table that a dictionary accessor fetched on the way
\* is a successful fetch of its own and is stored); the access that follows a
\* failed access of the same accessor finds nothing stored, runs the fetch
\* again and, when it succeeds, stores and returns the value it fetched.
C29_FailedFetchNotCached ==
    /\ (FirstAccess /\ last.exc # NoExc) =>
           /\ cache[last.op] = None
           /\ \A t \in CachedProperties \ {"qualities"} : cache[t] = last.pre.cache[t]
           /\ cache["qualities"] # last.pre.cache["qualities"] =>
                  /\ last.op \notin RefTables
                  /\ last.pre.cache["qualities"] = None
                  /\ \E k \in Events("wrapper_exit") :
                        Trace[k].op = "qualities" /\ Trace[k].x = NoExc
    /\ AfterFailedAccess =>
           /\ last.pre.cache[last.op] = None
           /\ FetchIssued
           /\ last.exc = NoExc =>
                  /\ last.ret # None
                  /\ last.ret = Fetched
                  /\ cache[last.op] = last.ret

\* A reference table whose access failed and whose next access fetched it
\* again, stored it and returned it.
C29_Witness ==
    /\ AfterFailedAccess
    /\ last.op \in RefTables
    /\ last.exc = NoExc
    /\ RequestsTo({Endpoint(last.op)}) # {}
    /\ cache[last.op] = last.ret
    /\ last.ret # None

====
